---------------------------- MODULE Spec2Model ----------------------------
(***************************************************************************)
(* Model of the personal-finance API:                                      *)
(*   - the condition evaluator and the rule engine   (app/rules.py)        *)
(*   - the categorization orchestrator and its classifier retry loop       *)
(*     (app/categorize.py)                                                 *)
(*   - the categorize handler's write-back           (app/routers/         *)
(*     categorize.py)                                                      *)
(*                                                                         *)
(*   - ingestion and manual finalization  (app/routers/ingest.py,          *)
(*     app/routers/categorize.py)                                          *)
(*   - the anomaly detector and its six passes  (app/services/anomalies.py)*)
(*                                                                         *)
(* The specifications of the module:                                       *)
(*   SpecEval  : evaluate_condition as a pure function of (txn, condition) *)
(*   SpecRules : apply_rules as a pure function of (txn, rule table)       *)
(*   Spec      : the categorize request, step by step                      *)
(*   SpecApi   : ingest, categorize and finalize requests in any order     *)
(*   SpecAnomalies : one run of the anomaly detector over a table          *)
(*                                                                         *)
(* Strings that the code inspects character by character (descriptors,     *)
(* search terms, regex patterns) are sequences of one-character strings.   *)
(* Confidences are integers in thousandths (0.80 is 800).                  *)
(***************************************************************************)
EXTENDS Integers, Sequences, FiniteSets, TLC

VARIABLES
    evT,        \* SpecEval: the transaction given to evaluate_condition
    evCond,     \* SpecEval: the condition given to evaluate_condition
    evOut,      \* SpecEval: "none" before the call, then "T", "F" or "E" (raised)
    reT,        \* SpecRules: the transaction given to apply_rules
    reRules,    \* SpecRules: the rows of the rules table
    reOrder,    \* SpecRules: the rows the query returned, in the order returned
    reOut,      \* SpecRules: what apply_rules returned
    db,         \* Spec: the transactions table, id -> row
    rules,      \* Spec: the rows of the rules table
    req,        \* Spec: the transaction id of the request being served
    pc,         \* Spec: where the request is: idle, classify, returned, raised, done
    attempt,    \* Spec: the retry loop's attempt
    calls,      \* Spec: classifier requests issued for this request
    hist,       \* Spec: the classifier's responses to this request, in order
    ruleRes,    \* Spec: what apply_rules returned to this request
    ret,        \* Spec: what categorize_transaction returned
    err,        \* Spec: the exception that left categorize_transaction, or "none"
    http,       \* Spec: the status code answered, 0 while there is none
    served,     \* Spec: requests started so far
    op,         \* Spec: the handler of the request: none, categorize, ingest, finalize
    out,        \* Spec: the transaction id an ingest request answered, 0 otherwise
    sent,       \* Spec: the body the request carried (ingest, finalize)
    anDb,       \* SpecAnomalies: the transactions table, id -> row
    anFail,     \* SpecAnomalies: the pass whose query fails, or "none"
    anOrder,    \* SpecAnomalies: the ids detect_duplicates scanned, in order
    anPc,       \* SpecAnomalies: the pass to run next, or returned / raised
    anAlerts,   \* SpecAnomalies: the alerts collected so far
    cdIn,       \* SpecClean: the descriptor given to _clean_descriptor
    cdOnce,     \* SpecClean: the descriptor cleaned
    cdTwice,    \* SpecClean: the cleaned descriptor cleaned again
    cdPc,       \* SpecClean: start, once, twice
    nvRaw,      \* SpecNormalize: the descriptor given to normalize_vendor
    nvVendors,  \* SpecNormalize: the vendors table, in the order select(Vendor) returns
    nvFail,     \* SpecNormalize: the query that raises (1..4), 0 for none
    nvPc,       \* SpecNormalize: the step to run next, or returned / raised
    nvQueries,  \* SpecNormalize: the queries issued so far
    nvErr,      \* SpecNormalize: the exception raised inside the try block, or "none"
    nvOut,      \* SpecNormalize: what normalize_vendor returned
    ccRow,      \* SpecConcurrent: the row of the transaction, as stored
    ccSnap,     \* SpecConcurrent: the row as each request's session loaded it
    ccRes,      \* SpecConcurrent: what categorize_transaction returned to each request
    ccPc,       \* SpecConcurrent: where each request is
    ccOrder     \* SpecConcurrent: the requests that committed, in the order of commit

evVars == <<evT, evCond, evOut>>
reVars == <<reT, reRules, reOrder, reOut>>
anVars == <<anDb, anFail, anOrder, anPc, anAlerts>>
cdVars == <<cdIn, cdOnce, cdTwice, cdPc>>
nvVars == <<nvRaw, nvVendors, nvFail, nvPc, nvQueries, nvErr, nvOut>>
ccVars == <<ccRow, ccSnap, ccRes, ccPc, ccOrder>>
moreVars == <<cdVars, nvVars, ccVars>>
czVars == <<db, rules, req, pc, attempt, calls, hist, ruleRes, ret, err, http, served,
            op, out, sent>>
vars == <<evT, evCond, evOut, reT, reRules, reOrder, reOut,
          db, rules, req, pc, attempt, calls, hist, ruleRes, ret, err, http, served,
          op, out, sent, anDb, anFail, anOrder, anPc, anAlerts,
          cdIn, cdOnce, cdTwice, cdPc,
          nvRaw, nvVendors, nvFail, nvPc, nvQueries, nvErr, nvOut,
          ccRow, ccSnap, ccRes, ccPc, ccOrder>>

(***************************************************************************)
(* Bounds of the model.                                                    *)
(***************************************************************************)
\* longest list of sub-conditions given to and / or / all / any
MaxSubs == 2
\* most rows in the rules table
MaxRules == 3
\* most requests (categorize, ingest, finalize) started in one behaviour
MaxRequests == 2
\* most rows in a table of mixed rows given to the anomaly detector
MaxTxns == 3
\* most rows of one amount in one category given to the anomaly detector
MaxSame == 10
\* most rows of other amounts, categories or dates beside them
MaxOthers == 2
\* pieces a descriptor given to _clean_descriptor is made of
MaxPieces == 3
\* rows of the vendors table
MaxVendors == 2

(***************************************************************************)
(* Python values the code relies on.                                       *)
(***************************************************************************)
\* Python's None where a string is expected
NoneStr == "None"

\* str.lower(), character by character
LowerChar(ch) ==
    CASE ch = "N" -> "n"
      [] ch = "F" -> "f"
      [] ch = "S" -> "s"
      [] ch = "B" -> "b"
      [] ch = "X" -> "x"
      [] OTHER -> ch

Lower(s) == [i \in 1..Len(s) |-> LowerChar(s[i])]

\* str.upper(), character by character
UpperChar(ch) ==
    CASE ch = "n" -> "N"
      [] ch = "f" -> "F"
      [] ch = "s" -> "S"
      [] ch = "b" -> "B"
      [] ch = "x" -> "X"
      [] OTHER -> ch

Upper(s) == [i \in 1..Len(s) |-> UpperChar(s[i])]

\* Python's  needle in hay  on strings
IsSubstring(needle, hay) ==
    \E i \in 0..(Len(hay) - Len(needle)) :
        \A j \in 1..Len(needle) : hay[i + j] = needle[j]

\* re.compile on the fragment of patterns used here: letters are literals and
\* "(" opens a group that is never closed, which re rejects (re.error)
RegexCompiles(pattern) == \A i \in 1..Len(pattern) : pattern[i] # "("

\* re.search(pattern, text, re.IGNORECASE) for a pattern of literals
RegexSearchIgnoreCase(pattern, text) == IsSubstring(Lower(pattern), Lower(text))

\* truthiness of an Optional[str]
TruthyStr(s) == s # NoneStr /\ s # ""

(***************************************************************************)
(* Conditions: a JSON mapping.  keys is the set of its keys; the other     *)
(* fields hold the value under the key that uses them.                     *)
(***************************************************************************)
MkCond(keys, subs, str, code, codes, lo, hi) ==
    [keys |-> keys, subs |-> subs, str |-> str, code |-> code,
     codes |-> codes, lo |-> lo, hi |-> hi]

Logic(key, subs) == MkCond({key}, subs, <<>>, "", {}, 0, 0)
CContains(term) == MkCond({"contains"}, <<>>, term, "", {}, 0, 0)
CRegex(pattern) == MkCond({"regex"}, <<>>, pattern, "", {}, 0, 0)
CMcc(code) == MkCond({"mcc"}, <<>>, <<>>, code, {}, 0, 0)
CMccIn(codes) == MkCond({"mcc_in"}, <<>>, <<>>, "", codes, 0, 0)
CAmountRange(lo, hi) == MkCond({"amount_range"}, <<>>, <<>>, "", {}, lo, hi)
CAccount(acct) == MkCond({"account"}, <<>>, <<>>, acct, {}, 0, 0)
CDirection(dir) == MkCond({"direction"}, <<>>, <<>>, dir, {}, 0, 0)
CUnknown == MkCond({"unknown_type"}, <<>>, <<>>, "value", {}, 0, 0)
CEmpty == MkCond({}, <<>>, <<>>, "", {}, 0, 0)

\* dict.get(key) for a key whose value is a list: the list, or None
PyNone == [isNone |-> TRUE, val |-> <<>>]
DictGetList(c, key) ==
    IF key \in c.keys THEN [isNone |-> FALSE, val |-> c.subs] ELSE PyNone

\* Python's  a or b : a when a is truthy (not None, not the empty list), else b
PyOr(a, b) == IF ~a.isNone /\ a.val # <<>> THEN a ELSE b

\* bool -> the evaluator's three outcomes: "T", "F", "E" (an exception left it)
Bool3(b) == IF b THEN "T" ELSE "F"

\* the range test with the bug of excluding the upper bound
InAmountRangeBelowMax(amount, min_amt, max_amt) ==
    min_amt <= amount /\ amount < max_amt

\* lines 178-180: min_amt <= transaction.amount_cents <= max_amt
InAmountRange(amount, min_amt, max_amt) ==
    min_amt <= amount /\ amount <= max_amt

\* the fall-through with the bug of treating an unknown condition as a match
UnknownConditionMatches(c) == "T"

\* lines 190-195: a condition with none of the known keys is logged and is
\* False
UnknownCondition(c) == "F"

RECURSIVE EvaluateCondition(_, _)
RECURSIVE AllOf(_, _, _)
RECURSIVE AnyOf(_, _, _)

\* AllOf with the bug of looking at the first element only
AllOfFirstOnly(t, cs, i) ==
    IF i > Len(cs) THEN "T" ELSE EvaluateCondition(t, cs[1])

\* all(evaluate_condition(t, c) for c in cs): stops at the first False, and an
\* exception raised by an element that is reached leaves the whole call
AllOf(t, cs, i) ==
    IF i > Len(cs) THEN "T"
    ELSE LET r == EvaluateCondition(t, cs[i]) IN
         IF r = "T" THEN AllOf(t, cs, i + 1) ELSE r

\* any(evaluate_condition(t, c) for c in cs): stops at the first True
AnyOf(t, cs, i) ==
    IF i > Len(cs) THEN "F"
    ELSE LET r == EvaluateCondition(t, cs[i]) IN
         IF r = "F" THEN AnyOf(t, cs, i + 1) ELSE r

\* the list the "and"/"all" branch iterates
AndList(c) == PyOr(DictGetList(c, "and"), DictGetList(c, "all"))

\* the list the "or"/"any" branch iterates
OrList(c) == PyOr(DictGetList(c, "or"), DictGetList(c, "any"))

EvaluateCondition(t, c) ==
    IF "and" \in c.keys \/ "all" \in c.keys THEN
        \* iterating None raises TypeError
        IF AndList(c).isNone THEN "E" ELSE AllOf(t, AndList(c).val, 1)
    ELSE IF "or" \in c.keys \/ "any" \in c.keys THEN
        IF OrList(c).isNone THEN "E" ELSE AnyOf(t, OrList(c).val, 1)
    ELSE IF "contains" \in c.keys THEN
        Bool3(IsSubstring(Lower(c.str), Lower(t.raw_descriptor)))
    ELSE IF "regex" \in c.keys THEN
        IF RegexCompiles(c.str)
        THEN Bool3(RegexSearchIgnoreCase(c.str, t.raw_descriptor))
        ELSE "E"
    ELSE IF "mcc" \in c.keys THEN
        IF ~TruthyStr(t.mcc) THEN "F" ELSE Bool3(t.mcc = c.code)
    ELSE IF "mcc_in" \in c.keys THEN
        IF ~TruthyStr(t.mcc) THEN "F" ELSE Bool3(t.mcc \in c.codes)
    ELSE IF "amount_range" \in c.keys THEN
        Bool3(InAmountRange(t.amount_cents, c.lo, c.hi))
    ELSE IF "account" \in c.keys THEN
        Bool3(t.source_account = c.code)
    ELSE IF "direction" \in c.keys THEN
        Bool3(t.direction = c.code)
    ELSE UnknownCondition(c)

(***************************************************************************)
(* Inputs.                                                                 *)
(***************************************************************************)
\* the fields of a transaction the rule engine reads
MkT(desc, mcc, amount, acct, dir) ==
    [raw_descriptor |-> desc, mcc |-> mcc, amount_cents |-> amount,
     source_account |-> acct, direction |-> dir]

Txns ==
    { MkT(<<"N", "F">>, NoneStr, 784, "amex", "debit"),
      MkT(<<"n", "f", "x">>, "5814", 1000, "amex", "debit"),
      MkT(<<"S", "B">>, "5411", 784, "chase", "credit"),
      MkT(<<"x", "S", "b">>, "", 50000, "chase", "debit"),
      MkT(<<>>, "5814", 999, "amex", "credit") }

Atoms ==
    { CContains(<<"n", "f">>),
      CContains(<<"S", "B">>),
      CRegex(<<"F", "X">>),
      CRegex(<<"(">>),
      CMcc("5814"),
      CMccIn({"5411", "5814"}),
      CAmountRange(784, 1000),
      CAmountRange(1000, 1000),
      CAmountRange(1000, 784),
      CAccount("amex"),
      CDirection("debit"),
      CUnknown,
      CEmpty }

\* nested conditions, two and three levels deep
Nested ==
    { Logic("and", <<>>),
      Logic("any", <<>>),
      Logic("and", <<CDirection("debit"), CRegex(<<"(">>)>>),
      Logic("or", <<CAccount("amex"), CRegex(<<"(">>)>>),
      Logic("all", <<CContains(<<"n", "f">>), Logic("or", <<CMcc("5814"), CDirection("debit")>>)>>),
      Logic("any", <<Logic("and", <<CAccount("chase"), CDirection("credit")>>), Logic("or", <<>>)>>) }

SubConds == Atoms \cup Nested

LogicKeys == {"and", "all", "or", "any"}

\* the lists of at most n elements of S
RECURSIVE ListsUpTo(_, _)
ListsUpTo(S, n) ==
    IF n = 0 THEN {<<>>}
    ELSE LET shorter == ListsUpTo(S, n - 1) IN
         shorter \cup {Append(l, x) : l \in {m \in shorter : Len(m) = n - 1}, x \in S}

(***************************************************************************)
(* The rule engine (apply_rules).                                          *)
(***************************************************************************)
MkAction(category, subcategory) ==
    [category |-> category, subcategory |-> subcategory]

NoAction == MkAction(NoneStr, NoneStr)

\* a row of the rules table
MkRule(id, priority, condition, action, active) ==
    [id |-> id, priority |-> priority, condition |-> condition,
     action |-> action, active |-> active]

\* the WHERE clause with the bug of not filtering on active
ActiveRulesUnfiltered(rows) == rows

\* WHERE Rule.active == True
ActiveRules(rows) == {r \in rows : r.active}

\* the sequences that hold every element of S once
Perms(S) ==
    {f \in [1..Cardinality(S) -> S] : \A x \in S : \E i \in DOMAIN f : f[i] = x}

\* ORDER BY Rule.priority ASC: every order of the active rows with ascending
\* priority; the database is free in how it orders rows of equal priority
QueryOrders(rows) ==
    {s \in Perms(ActiveRules(rows)) :
        \A i, j \in DOMAIN s : i < j => s[i].priority <= s[j].priority}

\* what apply_rules hands back: an action, None, or an exception
RuleResult(kind, action) == [kind |-> kind, action |-> action]

RECURSIVE RuleLoop(_, _, _)

\* the loop with the bug of letting a rule's exception leave apply_rules
RuleLoopAborting(t, order, i) ==
    IF i > Len(order) THEN RuleResult("none", NoAction)
    ELSE LET r == EvaluateCondition(t, order[i].condition) IN
         IF r = "T" THEN RuleResult("action", order[i].action)
         ELSE IF r = "E" THEN RuleResult("raise", NoAction)
         ELSE RuleLoop(t, order, i + 1)

\* for rule in rules: the first rule whose condition is true returns its
\* action; a rule whose condition raises is logged and skipped (continue)
RuleLoop(t, order, i) ==
    IF i > Len(order) THEN RuleResult("none", NoAction)
    ELSE LET r == EvaluateCondition(t, order[i].condition) IN
         IF r = "T" THEN RuleResult("action", order[i].action)
         ELSE RuleLoop(t, order, i + 1)

\* the action stored with rule id
ActionOf(id) ==
    CASE id = 1 -> MkAction("Dining", "Coffee")
      [] id = 2 -> MkAction("Groceries", NoneStr)
      [] id = 3 -> MkAction("Subscriptions", "Streaming")
      [] OTHER -> MkAction("Fuel", "Gas Station")

RuleConds ==
    { CContains(<<"n", "f">>),
      CDirection("debit"),
      CRegex(<<"(">>),
      CUnknown,
      Logic("or", <<CRegex(<<"(">>), CDirection("debit")>>) }

RulePriorities == {1, 100}

RuleTxns ==
    { MkT(<<"N", "F">>, NoneStr, 784, "amex", "debit"),
      MkT(<<"n", "f", "x">>, "5814", 1000, "amex", "credit"),
      MkT(<<"S", "B">>, "5411", 784, "chase", "credit") }

\* what may vary in a row: its priority, its condition and whether it is active
RuleChoices == RulePriorities \X RuleConds \X BOOLEAN

\* the rule table of n rows, ids 1..n, row i built from choice f[i]
RuleTable(n, f) ==
    {MkRule(i, f[i][1], f[i][2], ActionOf(i), f[i][3]) : i \in 1..n}

(***************************************************************************)
(* The categorization orchestrator (categorize_transaction,                *)
(* categorize_with_openai, _parse_openai_response).                        *)
(***************************************************************************)
\* Python's None where a character string (descriptor, vendor) is expected
NoneSeq == <<NoneStr>>

\* truthiness of an Optional[str] held as characters
TruthySeq(s) == s # NoneSeq /\ s # <<>>

\* a NULL confidence column
NullConfidence == -1

\* max_retries: int = 2
MaxRetries == 2

\* settings.LOW_CONFIDENCE = 0.80
LOW_CONFIDENCE == 800

\* settings.REVIEW_AMOUNT_CENTS
REVIEW_AMOUNT_CENTS == 5000

TAXONOMY ==
    { "Groceries", "Dining", "Transport", "Fuel", "Utilities", "Rent/Mortgage",
      "Internet", "Mobile", "Subscriptions", "Shopping", "Healthcare", "Pets",
      "Gifts/Charity", "Entertainment", "Travel-Air", "Travel-Hotel",
      "Travel-Other", "Income", "Transfers", "Savings" }

\* the dict categorize_transaction returns
MkResult(category, subcategory, confidence, vendor) ==
    [category |-> category, subcategory |-> subcategory,
     confidence |-> confidence, vendor |-> vendor]

NoResult == MkResult(NoneStr, NoneStr, NullConfidence, NoneSeq)

\* a JSON value under "confidence": absent, a number (thousandths), or a
\* string that float() rejects
ConfAbsent == [kind |-> "absent", v |-> 0]
ConfNum(v) == [kind |-> "num", v |-> v]
ConfText == [kind |-> "str", v |-> 0]

\* what one call of chat.completions.create gives: an exception (kind
\* "TimeoutError", "RateLimitError", "APIError") or a message (kind "content")
\* whose content is the lines  and, where they are JSON, the object json
MkResponse(kind, lines, json) == [kind |-> kind, lines |-> lines, json |-> json]

NoJson == [category |-> NoneStr, subcategory |-> NoneStr,
           confidence |-> ConfAbsent, vendor |-> NoneSeq]

\* max(0.0, min(1.0, confidence))
Min2(a, b) == IF a <= b THEN a ELSE b
Max2(a, b) == IF a >= b THEN a ELSE b

\* the clamp with the bug of bounding from above only
ClampUpperOnly(c) == Min2(1000, c)

Clamp(c) == Max2(0, Min2(1000, c))

\* _parse_openai_response: strips markdown fences when the content starts with
\* one, json.loads the rest, clamps a numeric confidence that is out of range.
\* exc is "none" or the exception that leaves the function
ParseOpenAIResponse(content) ==
    LET NotFence(l) == l # "fence"
        lines == IF content.lines # <<>> /\ content.lines[1] = "fence"
                 THEN SelectSeq(content.lines, NotFence)
                 ELSE content.lines
        j == content.json
    IN  IF lines # <<"json">> THEN [exc |-> "JSONDecodeError", result |-> NoJson]
        ELSE IF j.confidence.kind = "str" THEN [exc |-> "ValueError", result |-> NoJson]
        ELSE IF j.confidence.kind = "num"
                /\ ~(0 <= j.confidence.v /\ j.confidence.v <= 1000)
             THEN [exc |-> "none",
                   result |-> [j EXCEPT !.confidence = ConfNum(Clamp(j.confidence.v))]]
        ELSE [exc |-> "none", result |-> j]

\* the fixed result returned when the attempts are used up
DefaultResult(t) ==
    MkResult("Shopping", "Uncategorized", 300,
             IF TruthySeq(t.canonical_vendor) THEN t.canonical_vendor
             ELSE t.raw_descriptor)

\* the validation with the bug of keeping the reported confidence for a
\* category outside the taxonomy
ValidateResultKeepConfidence(r) ==
    IF ~TruthyStr(r.category) THEN
        [ctl |-> "raise", exc |-> "ValueError", ret |-> NoResult]
    ELSE
        LET reported == IF r.confidence.kind = "absent" THEN 500 ELSE r.confidence.v
        IN  [ctl |-> "return", exc |-> "none",
             ret |-> MkResult(IF r.category \notin TAXONOMY THEN "Shopping" ELSE r.category,
                              r.subcategory, Clamp(reported), r.vendor)]

\* lines 164-190: validation of a parsed response. ctl is "return" or "raise"
ValidateResult(r) ==
    IF ~TruthyStr(r.category) THEN
        [ctl |-> "raise", exc |-> "ValueError", ret |-> NoResult]
    ELSE
        LET reported == IF r.confidence.kind = "absent" THEN 500 ELSE r.confidence.v
            confidence == Clamp(reported)
        IN  IF r.category \notin TAXONOMY
            THEN [ctl |-> "return", exc |-> "none",
                  ret |-> MkResult("Shopping", r.subcategory, 500, r.vendor)]
            ELSE [ctl |-> "return", exc |-> "none",
                  ret |-> MkResult(r.category, r.subcategory, confidence, r.vendor)]

\* the except clauses with the bug of an off-by-one last attempt
HandleExceptionOffByOne(t, exc, n) ==
    IF exc \notin {"TimeoutError", "JSONDecodeError", "RateLimitError", "APIError"}
    THEN [ctl |-> "raise", exc |-> exc, ret |-> NoResult]
    ELSE IF n # MaxRetries + 1 THEN [ctl |-> "retry", exc |-> "none", ret |-> NoResult]
    ELSE IF exc = "TimeoutError" THEN [ctl |-> "raise", exc |-> "Exception", ret |-> NoResult]
    ELSE IF exc = "RateLimitError" THEN [ctl |-> "raise", exc |-> exc, ret |-> NoResult]
    ELSE [ctl |-> "return", exc |-> "none", ret |-> DefaultResult(t)]

\* the except clauses with the bug of a last timeout degrading to the default
HandleExceptionSwallowTimeout(t, exc, n) ==
    IF exc \notin {"TimeoutError", "JSONDecodeError", "RateLimitError", "APIError"}
    THEN [ctl |-> "raise", exc |-> exc, ret |-> NoResult]
    ELSE IF n # MaxRetries THEN [ctl |-> "retry", exc |-> "none", ret |-> NoResult]
    ELSE IF exc = "RateLimitError" THEN [ctl |-> "raise", exc |-> exc, ret |-> NoResult]
    ELSE [ctl |-> "return", exc |-> "none", ret |-> DefaultResult(t)]

\* what the except clause for exception class exc does on attempt n:
\* on the last attempt a timeout and a rate limit raise, a JSON decode error and
\* an API error return the default; earlier attempts sleep and retry.  An
\* exception of any other class is caught by no clause
HandleException(t, exc, n) ==
    IF exc \notin {"TimeoutError", "JSONDecodeError", "RateLimitError", "APIError"}
    THEN [ctl |-> "raise", exc |-> exc, ret |-> NoResult]
    ELSE IF n # MaxRetries THEN [ctl |-> "retry", exc |-> "none", ret |-> NoResult]
    ELSE IF exc = "TimeoutError" THEN [ctl |-> "raise", exc |-> "Exception", ret |-> NoResult]
    ELSE IF exc = "RateLimitError" THEN [ctl |-> "raise", exc |-> exc, ret |-> NoResult]
    ELSE [ctl |-> "return", exc |-> "none", ret |-> DefaultResult(t)]

\* one iteration of  for attempt in range(max_retries + 1)
AttemptOutcome(t, response, n) ==
    IF response.kind # "content" THEN HandleException(t, response.kind, n)
    ELSE LET parsed == ParseOpenAIResponse(response) IN
         IF parsed.exc # "none" THEN HandleException(t, parsed.exc, n)
         ELSE LET v == ValidateResult(parsed.result) IN
              IF v.ctl = "raise" THEN HandleException(t, v.exc, n) ELSE v

\* the rule result with the bug of inferring a vendor as the default does
RuleMatchResultInferVendor(t, action) ==
    MkResult(action.category, action.subcategory, 1000,
             IF TruthySeq(t.canonical_vendor) THEN t.canonical_vendor
             ELSE t.raw_descriptor)

\* lines 74-81: the result built from a rule's action
RuleMatchResult(t, action) ==
    MkResult(action.category, action.subcategory, 1000, t.canonical_vendor)

(***************************************************************************)
(* Spec: the categorize request (POST /categorize/{transaction_id}).       *)
(***************************************************************************)
\* a row of the transactions table (the columns the handlers read or write)
MkRow(id, date, amount, dir, desc, vendor, mcc, memo, acct, hash) ==
    [id |-> id, txn_date |-> date, amount_cents |-> amount, currency |-> "USD",
     direction |-> dir, raw_descriptor |-> desc, canonical_vendor |-> vendor,
     mcc |-> mcc, memo |-> memo, source_account |-> acct, hash_id |-> hash,
     receipt_url |-> NoneStr, category |-> NoneStr, subcategory |-> NoneStr,
     confidence |-> NullConfidence, status |-> "ingested"]

\* NUMERIC(3,2): the column keeps two decimals, rounding half away from zero
RoundToColumn(c) == ((c + 5) \div 10) * 10

\* lines 104-110: the status decision
NeedsReview(confidence, amount) ==
    confidence < LOW_CONFIDENCE \/ amount > REVIEW_AMOUNT_CENTS

\* lines 95-113: the row after the handler's update, commit and refresh
UpdatedRow(row, c) ==
    [row EXCEPT
        !.category = c.category,
        !.subcategory = c.subcategory,
        !.confidence = RoundToColumn(c.confidence),
        !.canonical_vendor =
            IF TruthySeq(c.vendor) /\ ~TruthySeq(row.canonical_vendor)
            THEN c.vendor ELSE row.canonical_vendor,
        !.status =
            IF NeedsReview(c.confidence, row.amount_cents) THEN "review" ELSE "finalized"]

(***************************************************************************)
(* Ingestion (POST /ingest) and manual finalization (POST /finalize/{id}). *)
(***************************************************************************)
\* the vendors table, in the order  select(Vendor)  returns its rows
MkVendor(name, aliases) == [canonical_vendor |-> name, aliases |-> aliases]

VendorTable == << MkVendor(<<"S", "b">>, <<>>) >>

\* the character classes \s and \d of re, on the characters used here
SpaceChars == {" ", "\t"}

DigitChars == {"0", "1", "2", "3", "4", "5", "6", "7", "8", "9"}

IsSpace(ch) == ch \in SpaceChars

IsDigit(ch) == ch \in DigitChars

\* the index after the longest run of characters of a class that starts at i
\* (i itself when s[i] is not of the class): what a greedy  \s*  or  \d+  takes
Run(s, i, class) ==
    CHOOSE j \in i..(Len(s) + 1) :
        /\ \A k \in i..(j - 1) : s[k] \in class
        /\ j = Len(s) + 1 \/ s[j] \notin class

\* the literal lit stands in s at index i
HasAt(s, i, lit) ==
    /\ i + Len(lit) - 1 <= Len(s)
    /\ \A k \in 1..Len(lit) : s[i + k - 1] = lit[k]

\* str.strip()
Strip(s) ==
    IF \A i \in 1..Len(s) : IsSpace(s[i]) THEN <<>>
    ELSE LET first == CHOOSE i \in 1..Len(s) :
                          ~IsSpace(s[i]) /\ \A k \in 1..(i - 1) : IsSpace(s[k])
             last == CHOOSE i \in 1..Len(s) :
                          ~IsSpace(s[i]) /\ \A k \in (i + 1)..Len(s) : IsSpace(s[k])
         IN  SubSeq(s, first, last)

\* CLEANUP_PATTERNS (lines 20-29) by position, and what each is replaced with
CleanupReplacement(k) == IF k = 8 THEN <<" ">> ELSE <<>>

NumCleanupPatterns == 8

\* re.match of pattern k at index i of an upper-case text: the index after the
\* match, 0 when the pattern does not match there.  No pattern matches the
\* empty text, and in each the greedy choice is the only one that can match.
MatchEnd(k, s, i) ==
    CASE k = 1 -> IF HasAt(s, i, <<"T", "S", "T", "*">>) THEN i + 4 ELSE 0
      [] k = 2 -> IF HasAt(s, i, <<"S", "Q">>) /\ HasAt(s, Run(s, i + 2, SpaceChars), <<"*">>)
                  THEN Run(s, i + 2, SpaceChars) + 1 ELSE 0
      [] k = 3 -> IF HasAt(s, i, <<"P", "P", "*">>) THEN i + 3 ELSE 0
      [] k = 4 -> IF HasAt(s, i, <<"S", "P">>) /\ HasAt(s, Run(s, i + 2, SpaceChars), <<"*">>)
                  THEN Run(s, i + 2, SpaceChars) + 1 ELSE 0
      [] k = 5 -> LET j == Run(s, i, SpaceChars)
                  IN  IF HasAt(s, j, <<"#">>) /\ Run(s, j + 1, DigitChars) > j + 1
                      THEN Run(s, j + 1, DigitChars) ELSE 0
      [] k = 6 -> LET j == Run(s, i, SpaceChars)
                      n == Run(s, j + 5, SpaceChars)
                  IN  IF /\ j > i
                         /\ HasAt(s, j, <<"S", "T", "O", "R", "E">>)
                         /\ n > j + 5
                         /\ Run(s, n, DigitChars) > n
                      THEN Run(s, n, DigitChars) ELSE 0
      [] k = 7 -> LET j == Run(s, i, SpaceChars)
                      e == Run(s, j, DigitChars)
                  IN  IF /\ j > i
                         /\ e - j >= 3 /\ e - j <= 5
                         /\ Run(s, e, SpaceChars) = Len(s) + 1
                      THEN Len(s) + 1 ELSE 0
      [] k = 8 -> IF Run(s, i, SpaceChars) >= i + 2 THEN Run(s, i, SpaceChars) ELSE 0

RECURSIVE SubFrom(_, _, _)
\* re.sub(pattern k, replacement, s) from index i on: the matches are taken
\* from left to right and do not overlap
SubFrom(k, s, i) ==
    IF i > Len(s) THEN <<>>
    ELSE IF MatchEnd(k, s, i) = 0 THEN <<s[i]>> \o SubFrom(k, s, i + 1)
    ELSE CleanupReplacement(k) \o SubFrom(k, s, MatchEnd(k, s, i))

RECURSIVE ApplyPatterns(_, _)
\* lines 48-49: the patterns applied one after the other, each once
ApplyPatterns(k, s) ==
    IF k > NumCleanupPatterns THEN s
    ELSE ApplyPatterns(k + 1, SubFrom(k, s, 1))

\* _clean_descriptor (lines 32-51): upper(), strip(), the eight substitutions
\* in order, strip()
CleanDescriptor(d) == Strip(ApplyPatterns(1, Strip(Upper(d))))

\* the least index of a non-empty set of indexes: the first row a loop meets
FirstIndex(S) == CHOOSE i \in S : \A j \in S : i <= j

\* lines 98-100, 112-116, 132-136: the rows the three queries on the
\* canonical name select
ExactHits(raw, vendors) ==
    {i \in DOMAIN vendors : vendors[i].canonical_vendor = raw}

NoCaseHits(raw, vendors) ==
    {i \in DOMAIN vendors : Upper(vendors[i].canonical_vendor) = Upper(raw)}

CleanedHits(raw, vendors) ==
    {i \in DOMAIN vendors : Upper(vendors[i].canonical_vendor) = CleanDescriptor(raw)}

\* lines 160-195: the three tests made on one alias
AliasHit(alias, raw) ==
    \/ alias = raw
    \/ Upper(alias) = Upper(raw)
    \/ CleanDescriptor(alias) = CleanDescriptor(raw)

\* lines 156-195: the vendors one of whose aliases passes a test
AliasHits(raw, vendors) ==
    {i \in DOMAIN vendors :
        \E k \in DOMAIN vendors[i].aliases : AliasHit(vendors[i].aliases[k], raw)}

\* lines 199-201: the upper-case name contains the cleaned descriptor or is
\* contained in it
FuzzyHits(raw, vendors) ==
    {i \in DOMAIN vendors :
        \/ IsSubstring(Upper(vendors[i].canonical_vendor), CleanDescriptor(raw))
        \/ IsSubstring(CleanDescriptor(raw), Upper(vendors[i].canonical_vendor))}

\* normalize_vendor without a database error: the six strategies in order;
\* scalar_one_or_none() raises when several rows match, and the function's
\* except clause turns that into None
NormalizeVendor(raw, vendors) ==
    LET up == Upper(raw)
        cleaned == CleanDescriptor(raw)
        Canon(i) == vendors[i].canonical_vendor
        exact == ExactHits(raw, vendors)
        nocase == NoCaseHits(raw, vendors)
        byClean == CleanedHits(raw, vendors)
        byAlias == AliasHits(raw, vendors)
        fuzzy == FuzzyHits(raw, vendors)
    IN  IF raw = <<>> \/ raw = NoneSeq THEN NoneSeq
        ELSE IF exact # {} THEN Canon(FirstIndex(exact))
        ELSE IF Cardinality(nocase) > 1 THEN NoneSeq
        ELSE IF nocase # {} THEN Canon(FirstIndex(nocase))
        ELSE IF cleaned # up /\ Cardinality(byClean) > 1 THEN NoneSeq
        ELSE IF cleaned # up /\ byClean # {} THEN Canon(FirstIndex(byClean))
        ELSE IF byAlias # {} THEN Canon(FirstIndex(byAlias))
        ELSE IF fuzzy # {} THEN Canon(FirstIndex(fuzzy))
        ELSE NoneSeq

\* compute_hash_id: the text "date|amount|descriptor|account"; SHA-256 is taken
\* to be free of collisions, so the digest is the text it was computed from
ComputeHashId(date, amount, desc, acct) ==
    <<ToString(date), "|", ToString(amount), "|">> \o desc \o <<"|", acct>>

\* the body of an ingest request (TxnIn)
MkTxnIn(date, amount, dir, desc, mcc, memo, acct, hash) ==
    [txn_date |-> date, amount_cents |-> amount, currency |-> "USD",
     direction |-> dir, raw_descriptor |-> desc, mcc |-> mcc, memo |-> memo,
     source_account |-> acct, hash_id |-> hash]

\* lines 96-104: the hash the request carries, computed when it carries none
HashOf(txn) ==
    IF txn.hash_id = <<>>
    THEN ComputeHashId(txn.txn_date, txn.amount_cents, txn.raw_descriptor,
                       txn.source_account)
    ELSE txn.hash_id

\* lines 113-128: the row the INSERT creates
InsertedRow(id, txn, vendor) ==
    MkRow(id, txn.txn_date, txn.amount_cents, txn.direction, txn.raw_descriptor,
          vendor, txn.mcc, txn.memo, txn.source_account, HashOf(txn))

\* the upsert with the bug of listing status among the updated columns
ConflictUpdateResetStatus(row, txn, vendor) ==
    [row EXCEPT
        !.txn_date = txn.txn_date,
        !.amount_cents = txn.amount_cents,
        !.currency = txn.currency,
        !.direction = txn.direction,
        !.raw_descriptor = txn.raw_descriptor,
        !.canonical_vendor = vendor,
        !.mcc = txn.mcc,
        !.memo = txn.memo,
        !.source_account = txn.source_account,
        !.status = "ingested"]

\* lines 129-141: the columns ON CONFLICT (hash_id) DO UPDATE overwrites
ConflictUpdate(row, txn, vendor) ==
    [row EXCEPT
        !.txn_date = txn.txn_date,
        !.amount_cents = txn.amount_cents,
        !.currency = txn.currency,
        !.direction = txn.direction,
        !.raw_descriptor = txn.raw_descriptor,
        !.canonical_vendor = vendor,
        !.mcc = txn.mcc,
        !.memo = txn.memo,
        !.source_account = txn.source_account]

\* the ids of the rows holding a hash (hash_id is UNIQUE: at most one)
RowsWithHash(rows, h) == {i \in DOMAIN rows : rows[i].hash_id = h}

\* the body of a finalize request (FinalizeRequest)
MkFinalize(category, subcategory) ==
    [category |-> category, subcategory |-> subcategory]

\* a request without body (categorize), or no request yet
NoBody == MkFinalize(NoneStr, NoneStr)

\* the finalize with the bug of leaving the confidence as it was
FinalizedRowKeepConfidence(row, body) ==
    [row EXCEPT
        !.category = body.category,
        !.subcategory = body.subcategory,
        !.status = "finalized"]

\* routers/categorize.py lines 198-204: the row after a manual finalize
FinalizedRow(row, body) ==
    [row EXCEPT
        !.category = body.category,
        !.subcategory = body.subcategory,
        !.status = "finalized",
        !.confidence = 1000]

InitRows ==
    { MkRow(1, 1, amt, "debit", desc, vendor, "5814", NoneStr, "amex",
            ComputeHashId(1, amt, desc, "amex")) :
        amt \in {784, 5001},
        desc \in {<<"N", "F">>, <<"S", "B">>},
        vendor \in {NoneSeq, <<"S", "b">>} }

PipelineRuleTables ==
    { {},
      { MkRule(1, 100, CContains(<<"n", "f">>), ActionOf(1), TRUE),
        MkRule(2, 1, CRegex(<<"(">>), ActionOf(2), TRUE),
        MkRule(3, 1, CDirection("debit"), ActionOf(3), FALSE) } }

\* the bodies ingest requests carry: the content of the initial row or another
\* descriptor, with or without memo, with the hash left to the server or a
\* hash of the client's own
TxnIns ==
    { MkTxnIn(1, 784, "debit", desc, "5814", memo, "amex", h) :
        desc \in {<<"N", "F">>, <<"S", "B">>},
        memo \in {NoneStr, "m"},
        h \in {<<>>, <<"h">>} }

FinalizeRequests == { MkFinalize("Travel-Air", s) : s \in {NoneStr, "Flights"} }

\* the ids a request may name; 2 is the id of no row until one is ingested
RequestIds == {1, 2}

JsonBodies ==
    { [category |-> cat, subcategory |-> "Coffee", confidence |-> conf, vendor |-> v] :
        cat \in {"Dining", "InvalidX"},
        conf \in {ConfAbsent, ConfNum(-200), ConfNum(796), ConfNum(800),
                  ConfNum(1000), ConfNum(1500)},
        v \in {NoneSeq, <<"S", "x">>} }
    \cup
    { [category |-> cat, subcategory |-> NoneStr, confidence |-> conf, vendor |-> NoneSeq] :
        cat \in {NoneStr, "", "Dining"},
        conf \in {ConfNum(900), ConfText} }

Responses ==
    { MkResponse(k, <<>>, NoJson) : k \in {"TimeoutError", "RateLimitError", "APIError"} }
    \cup { MkResponse("content", l, NoJson) : l \in {<<"text">>, <<"fence">>} }
    \cup { MkResponse("content", <<"json">>, j) : j \in JsonBodies }
    \cup { MkResponse("content", <<"fence", "json", "fence">>,
             [category |-> "Fuel", subcategory |-> "Gas Station",
              confidence |-> ConfNum(920), vendor |-> <<"S", "x">>]) }

\* the failure class of a response, as the retry loop sees it ("ok": it returned)
FailureClass(response) ==
    IF response.kind # "content" THEN response.kind
    ELSE IF ParseOpenAIResponse(response).exc # "none"
         THEN ParseOpenAIResponse(response).exc
    ELSE IF ValidateResult(ParseOpenAIResponse(response).result).ctl = "raise"
         THEN ValidateResult(ParseOpenAIResponse(response).result).exc
    ELSE "ok"

reIdle ==
    /\ reT = MkT(<<>>, NoneStr, 0, "", "debit")
    /\ reRules = {}
    /\ reOrder = <<>>
    /\ reOut = [kind |-> "idle", action |-> [category |-> NoneStr, subcategory |-> NoneStr]]

evIdle ==
    /\ evT = MkT(<<>>, NoneStr, 0, "", "debit")
    /\ evCond = CEmpty
    /\ evOut = "none"

cdIdle ==
    /\ cdIn = <<>>
    /\ cdOnce = <<>>
    /\ cdTwice = <<>>
    /\ cdPc = "idle"

nvIdle ==
    /\ nvRaw = <<>>
    /\ nvVendors = <<>>
    /\ nvFail = 0
    /\ nvPc = "idle"
    /\ nvQueries = 0
    /\ nvErr = "none"
    /\ nvOut = NoneSeq

ccIdle ==
    /\ ccRow = <<>>
    /\ ccSnap = <<>>
    /\ ccRes = <<>>
    /\ ccPc = <<>>
    /\ ccOrder = <<>>

moreIdle == cdIdle /\ nvIdle /\ ccIdle

anIdle ==
    /\ anDb = <<>>
    /\ anFail = "none"
    /\ anOrder = <<>>
    /\ anPc = "idle"
    /\ anAlerts = {}

czIdle ==
    /\ db = <<>>
    /\ rules = {}
    /\ req = 0
    /\ pc = "idle"
    /\ attempt = 0
    /\ calls = 0
    /\ hist = <<>>
    /\ ruleRes = RuleResult("idle", NoAction)
    /\ ret = NoResult
    /\ err = "none"
    /\ http = 0
    /\ served = 0
    /\ op = "none"
    /\ out = 0
    /\ sent = NoBody

Init ==
    /\ db \in {<<row>> : row \in InitRows}
    /\ rules \in PipelineRuleTables
    /\ req = 0
    /\ pc = "idle"
    /\ attempt = 0
    /\ calls = 0
    /\ hist = <<>>
    /\ ruleRes = RuleResult("idle", NoAction)
    /\ ret = NoResult
    /\ err = "none"
    /\ http = 0
    /\ served = 0
    /\ op = "none"
    /\ out = 0
    /\ sent = NoBody
    /\ evIdle
    /\ reIdle
    /\ anIdle
    /\ moreIdle

\* if rule_result: a dict with keys is truthy, None is not
TruthyAction(r) == r.kind = "action"

\* lines 79-93 and categorize_transaction lines 72-85: load the row, apply the
\* rules; a rule match is the result, otherwise the classifier loop starts
CategorizeLoad(id) ==
    /\ pc \in {"idle", "done"}
    /\ served < MaxRequests
    /\ served' = served + 1
    /\ req' = id
    /\ attempt' = 0
    /\ calls' = 0
    /\ hist' = <<>>
    /\ err' = "none"
    /\ op' = "categorize"
    /\ out' = 0
    /\ sent' = NoBody
    /\ UNCHANGED <<db, rules>>
    /\ IF id \notin DOMAIN db
       THEN /\ pc' = "done"
            /\ http' = 404
            /\ ret' = NoResult
            /\ ruleRes' = RuleResult("idle", NoAction)
       ELSE /\ http' = 0
            /\ \E order \in QueryOrders(rules) :
                 /\ ruleRes' = RuleLoop(db[id], order, 1)
                 /\ IF TruthyAction(ruleRes')
                    THEN /\ ret' = RuleMatchResult(db[id], ruleRes'.action)
                         /\ pc' = "returned"
                    ELSE /\ ret' = NoResult
                         /\ pc' = "classify"
    /\ UNCHANGED <<evVars, reVars, anVars, moreVars>>

\* one iteration of the retry loop of categorize_with_openai (lines 129-248);
\* once range(max_retries + 1) is used up the function returns the default
\* (lines 250-256)
ClassifierAttempt(response) ==
    /\ pc = "classify"
    /\ IF attempt <= MaxRetries
       THEN /\ calls' = calls + 1
            /\ hist' = Append(hist, response)
            /\ LET o == AttemptOutcome(db[req], response, attempt) IN
                 /\ ret' = o.ret
                 /\ err' = o.exc
                 /\ pc' = CASE o.ctl = "return" -> "returned"
                            [] o.ctl = "raise" -> "raised"
                            [] OTHER -> "classify"
                 /\ attempt' = IF o.ctl = "retry" THEN attempt + 1 ELSE attempt
       ELSE /\ ret' = DefaultResult(db[req])
            /\ pc' = "returned"
            /\ UNCHANGED <<calls, hist, err, attempt>>
    /\ UNCHANGED <<db, rules, req, ruleRes, http, served, op, out, sent,
                   evVars, reVars, anVars, moreVars>>

\* lines 95-128: write the result to the row, decide the status, commit
CategorizeCommit ==
    /\ pc = "returned"
    /\ db' = [db EXCEPT ![req] = UpdatedRow(db[req], ret)]
    /\ http' = 200
    /\ pc' = "done"
    /\ UNCHANGED <<rules, req, attempt, calls, hist, ruleRes, ret, err, served,
                   op, out, sent, evVars, reVars, anVars, moreVars>>

\* the handler with the bug of storing the default result when the
\* categorization failed
CategorizeFailStoresDefault ==
    /\ pc = "raised"
    /\ db' = [db EXCEPT ![req] = UpdatedRow(db[req], DefaultResult(db[req]))]
    /\ http' = 500
    /\ pc' = "done"
    /\ UNCHANGED <<rules, req, attempt, calls, hist, ruleRes, ret, err, served,
                   op, out, sent, evVars, reVars, anVars, moreVars>>

\* lines 132-138: roll back and answer 500
CategorizeFail ==
    /\ pc = "raised"
    /\ http' = 500
    /\ pc' = "done"
    /\ UNCHANGED <<db, rules, req, attempt, calls, hist, ruleRes, ret, err, served,
                   op, out, sent, evVars, reVars, anVars, moreVars>>

\* what a handler other than categorize leaves of categorize's locals
NoCategorizeLocals ==
    /\ attempt' = 0
    /\ calls' = 0
    /\ hist' = <<>>
    /\ ruleRes' = RuleResult("idle", NoAction)
    /\ ret' = NoResult
    /\ err' = "none"

\* routers/ingest.py lines 94-154: hash, normalize the vendor (None when the
\* vendor lookup fails), upsert by hash_id, answer the row's id
Ingest(txn, lookupFails) ==
    /\ pc \in {"idle", "done"}
    /\ served < MaxRequests
    /\ served' = served + 1
    /\ op' = "ingest"
    /\ sent' = txn
    /\ req' = 0
    /\ pc' = "done"
    /\ http' = 201
    /\ NoCategorizeLocals
    /\ LET vendor == IF lookupFails THEN NoneSeq
                     ELSE NormalizeVendor(txn.raw_descriptor, VendorTable)
           hit == RowsWithHash(db, HashOf(txn))
       IN  IF hit = {}
           THEN /\ db' = Append(db, InsertedRow(Len(db) + 1, txn, vendor))
                /\ out' = Len(db) + 1
           ELSE /\ db' = [i \in DOMAIN db |->
                            IF i \in hit THEN ConflictUpdate(db[i], txn, vendor)
                            ELSE db[i]]
                /\ out' = FirstIndex(hit)
    /\ UNCHANGED <<rules, evVars, reVars, anVars, moreVars>>

\* routers/categorize.py lines 185-211: load the row, 404 when there is none,
\* otherwise overwrite its categorization and commit
Finalize(id, body) ==
    /\ pc \in {"idle", "done"}
    /\ served < MaxRequests
    /\ served' = served + 1
    /\ op' = "finalize"
    /\ sent' = body
    /\ req' = id
    /\ out' = 0
    /\ pc' = "done"
    /\ NoCategorizeLocals
    /\ IF id \notin DOMAIN db
       THEN /\ http' = 404
            /\ UNCHANGED db
       ELSE /\ http' = 200
            /\ db' = [db EXCEPT ![id] = FinalizedRow(db[id], body)]
    /\ UNCHANGED <<rules, evVars, reVars, anVars, moreVars>>

Next ==
    \/ \E id \in RequestIds : CategorizeLoad(id)
    \/ \E response \in Responses : ClassifierAttempt(response)
    \/ CategorizeCommit
    \/ CategorizeFail

Spec == Init /\ [][Next]_vars

(***************************************************************************)
(* SpecApi: the three handlers that write transactions, one request after  *)
(* another: ingest, categorize, finalize.                                  *)
(***************************************************************************)
\* what the classifier answers here: a timeout, a body that is no JSON, and
\* well-formed results around the review threshold and at the top of the scale
ApiResponses ==
    { MkResponse("TimeoutError", <<>>, NoJson),
      MkResponse("content", <<"text">>, NoJson) }
    \cup
    { MkResponse("content", <<"json">>,
          [category |-> "Dining", subcategory |-> "Coffee",
           confidence |-> ConfNum(conf), vendor |-> <<"S", "x">>]) :
        conf \in {0, 796, 800, 995, 1000} }

InitApi ==
    /\ db \in {<<>>} \cup {<<row>> : row \in InitRows}
    /\ rules \in PipelineRuleTables
    /\ req = 0
    /\ pc = "idle"
    /\ attempt = 0
    /\ calls = 0
    /\ hist = <<>>
    /\ ruleRes = RuleResult("idle", NoAction)
    /\ ret = NoResult
    /\ err = "none"
    /\ http = 0
    /\ served = 0
    /\ op = "none"
    /\ out = 0
    /\ sent = NoBody
    /\ evIdle
    /\ reIdle
    /\ anIdle
    /\ moreIdle

NextApi ==
    \/ \E id \in RequestIds : CategorizeLoad(id)
    \/ \E response \in ApiResponses : ClassifierAttempt(response)
    \/ CategorizeCommit
    \/ CategorizeFail
    \/ \E txn \in TxnIns, lookupFails \in BOOLEAN : Ingest(txn, lookupFails)
    \/ \E id \in RequestIds, body \in FinalizeRequests : Finalize(id, body)

SpecApi == InitApi /\ [][NextApi]_vars

(***************************************************************************)
(* SpecEval: evaluate_condition applied to one input.                      *)
(***************************************************************************)
InitEval ==
    /\ evT \in Txns
    /\ evCond \in SubConds \cup
           {Logic(k, cs) : k \in LogicKeys, cs \in ListsUpTo(SubConds, MaxSubs)}
    /\ evOut = "none"
    /\ reIdle
    /\ czIdle
    /\ anIdle
    /\ moreIdle

Evaluate ==
    /\ evOut = "none"
    /\ evOut' = EvaluateCondition(evT, evCond)
    /\ UNCHANGED <<evT, evCond, reVars, czVars, anVars, moreVars>>

NextEval == Evaluate

SpecEval == InitEval /\ [][NextEval]_vars

(***************************************************************************)
(* SpecRules: apply_rules applied to one input.                            *)
(***************************************************************************)
InitRules ==
    /\ reT \in RuleTxns
    /\ \E n \in 0..MaxRules : \E f \in [1..n -> RuleChoices] :
          reRules = RuleTable(n, f)
    /\ reOrder = <<>>
    /\ reOut = RuleResult("idle", NoAction)
    /\ evIdle
    /\ czIdle
    /\ anIdle
    /\ moreIdle

ApplyRules ==
    /\ reOut.kind = "idle"
    /\ \E order \in QueryOrders(reRules) :
        /\ reOrder' = order
        /\ reOut' = RuleLoop(reT, order, 1)
    /\ UNCHANGED <<reT, reRules, evVars, czVars, anVars, moreVars>>

NextRules == ApplyRules

SpecRules == InitRules /\ [][NextRules]_vars

(***************************************************************************)
(* The anomaly detector (app/services/anomalies.py).  An alert is kept by  *)
(* its type, severity, the transaction ids or the category it is about     *)
(* and, for a pending review, its reason.  The alerts of one run differ in *)
(* these, so the list detect_anomalies builds is held as their set.        *)
(***************************************************************************)
\* date.today() and the default lookback_days, in days
Today == 100
LookbackDays == 30
CutoffDate == Today - LookbackDays

\* lines 437-442: period_days is the length of the window, the historical
\* baseline starts twice that before the cutoff
HistoricalStart == CutoffDate - 2 * (Today - CutoffDate)

\* default thresholds of the passes
NewVendorThresholdCents == 5000
MissingReceiptThresholdCents == 2500
MissingReceiptLimit == 20
MinSampleSize == 5
ZThreshold == 2
ZHighThreshold == 3
SpendMultiplier == 3
SpendHighRatio == 5

Passes ==
    <<"new_vendors", "duplicates", "zscore", "spending", "missing_receipts",
      "pending_review">>

MkAlert(type, severity, ids, category, reason) ==
    [type |-> type, severity |-> severity, ids |-> ids, category |-> category,
     reason |-> reason]

\* start_date <= txn_date <= end_date
InWindow(row) == row.txn_date >= CutoffDate /\ row.txn_date <= Today

RECURSIVE SumOver(_, _)
\* the sum of f over a finite set of indexes (func.sum, np.mean's sum)
SumOver(f, S) ==
    IF S = {} THEN 0
    ELSE LET i == CHOOSE i \in S : TRUE IN f[i] + SumOver(f, S \ {i})

\* the pass with the bug of taking a vendor's first date inside the window only
NewVendorAlertsFirstInWindow(rows) ==
    LET OfVendor(v) == {i \in DOMAIN rows :
                           rows[i].canonical_vendor = v /\ rows[i].txn_date >= CutoffDate}
        hits == {i \in DOMAIN rows :
                    /\ rows[i].canonical_vendor # NoneSeq
                    /\ rows[i].txn_date >= CutoffDate
                    /\ rows[i].txn_date <= Today
                    /\ \A j \in OfVendor(rows[i].canonical_vendor) :
                          rows[i].txn_date <= rows[j].txn_date
                    /\ rows[i].amount_cents >= NewVendorThresholdCents
                    /\ rows[i].direction = "debit"}
    IN  {MkAlert("new_vendor_over_threshold", "warning", <<i>>, NoneStr, NoneStr) :
            i \in hits}

\* lines 107-150: the rows dated on their vendor's first date, when that date
\* is in the window, the amount reaches the threshold and the row is a debit
NewVendorAlerts(rows) ==
    LET OfVendor(v) == {i \in DOMAIN rows : rows[i].canonical_vendor = v}
        FirstDate(v) ==
            CHOOSE d \in {rows[i].txn_date : i \in OfVendor(v)} :
                \A i \in OfVendor(v) : d <= rows[i].txn_date
        hits == {i \in DOMAIN rows :
                    /\ rows[i].canonical_vendor # NoneSeq
                    /\ rows[i].txn_date = FirstDate(rows[i].canonical_vendor)
                    /\ rows[i].txn_date >= CutoffDate
                    /\ rows[i].txn_date <= Today
                    /\ rows[i].amount_cents >= NewVendorThresholdCents
                    /\ rows[i].direction = "debit"}
    IN  {MkAlert("new_vendor_over_threshold", "warning", <<i>>, NoneStr, NoneStr) :
            i \in hits}

\* lines 284-296: the rows detect_duplicates scans
DuplicateCandidates(rows) ==
    {i \in DOMAIN rows : InWindow(rows[i]) /\ rows[i].canonical_vendor # NoneSeq}

\* line 301: the key of the seen dictionary
DuplicateKey(row) == <<row.canonical_vendor, row.amount_cents, row.txn_date>>

\* the letters of the model, in code-point order
Alphabet == <<"B", "F", "N", "S", "X", "b", "f", "n", "s", "x">>

CharRank(ch) == CHOOSE k \in DOMAIN Alphabet : Alphabet[k] = ch

\* v sorts strictly before w (ORDER BY on a text column)
TextBefore(v, w) ==
    \/ Len(v) < Len(w) /\ \A j \in 1..Len(v) : v[j] = w[j]
    \/ \E k \in 1..Min2(Len(v), Len(w)) :
          /\ \A j \in 1..(k - 1) : v[j] = w[j]
          /\ CharRank(v[k]) < CharRank(w[k])

\* line 293: ORDER BY txn_date, canonical_vendor
SortedByDateVendor(rows, order) ==
    \A p, q \in DOMAIN order :
        p < q =>
            /\ rows[order[p]].txn_date <= rows[order[q]].txn_date
            /\ rows[order[p]].txn_date = rows[order[q]].txn_date =>
                  ~TextBefore(rows[order[q]].canonical_vendor,
                              rows[order[p]].canonical_vendor)

\* the scan with the bug of remembering the latest row of a key, not the first
DuplicateAlertsLatestSeen(rows, order) ==
    LET Earlier(p) == {q \in 1..(p - 1) :
                          DuplicateKey(rows[order[q]]) = DuplicateKey(rows[order[p]])}
        Seen(p) == order[CHOOSE q \in Earlier(p) : \A r \in Earlier(p) : r <= q]
    IN  {MkAlert("duplicate_warning", "info", <<order[p], Seen(p)>>, NoneStr, NoneStr) :
            p \in {p \in DOMAIN order :
                      /\ Earlier(p) # {}
                      /\ rows[Seen(p)].hash_id # rows[order[p]].hash_id}}

\* lines 299-319: seen[key] is the first row scanned with the key; every later
\* row of the key with another hash gives an alert naming itself and that row
DuplicateAlerts(rows, order) ==
    LET Earlier(p) == {q \in 1..(p - 1) :
                          DuplicateKey(rows[order[q]]) = DuplicateKey(rows[order[p]])}
        Seen(p) == order[FirstIndex(Earlier(p))]
    IN  {MkAlert("duplicate_warning", "info", <<order[p], Seen(p)>>, NoneStr, NoneStr) :
            p \in {p \in DOMAIN order :
                      /\ Earlier(p) # {}
                      /\ rows[Seen(p)].hash_id # rows[order[p]].hash_id}}

\* the sign of d*d - k*k*v for d, v >= 0 and k > 0, on numbers that stay small
CompareSquare(d, k, v) ==
    LET q == d \div k
        r == d % k
    IN  IF q * q > v THEN 1
        ELSE IF v - q * q > 2 * q + 1 THEN -1
        ELSE LET lhs == 2 * q * r * k + r * r
                 rhs == k * k * (v - q * q)
             IN  IF lhs > rhs THEN 1 ELSE IF lhs = rhs THEN 0 ELSE -1

RECURSIVE Gcd(_, _)
Gcd(a, b) == IF b = 0 THEN a ELSE Gcd(b, a % b)

\* s / n is a binary fraction: np.mean holds it exactly in a double
ExactMean(s, n) == (n \div Gcd(s, n)) \in {1, 2, 4, 8, 16}

\* abs((amount - mean) / std) > k on doubles, for the amount with n * amount -
\* sum = d and a category with n * n * variance = v.  Off a tie the doubles
\* decide as the reals do.  On a tie (d*d = k*k*v) every intermediate value is
\* exact when the mean is, and the quotient is k; otherwise the mean is rounded
\* and the quotient comes out at k, just below or just above, by the rounding
\* of the sum of squares: roundsUp says it came out above
ZExceeds(d, k, v, exact, roundsUp) ==
    LET sign == CompareSquare(d, k, v)
    IN  IF sign = 0 THEN ~exact /\ roundsUp ELSE sign = 1

Abs(x) == IF x < 0 THEN -x ELSE x

\* the outlier test with the bug of flagging a z-score equal to the threshold
CategoryOutliersInclusive(rows, category, roundsUp) ==
    LET txns == {i \in DOMAIN rows :
                    rows[i].category = category /\ rows[i].txn_date >= CutoffDate}
        n == Cardinality(txns)
        amount == [i \in txns |-> rows[i].amount_cents]
        sum == SumOver(amount, txns)
        sumsq == SumOver([i \in txns |-> amount[i] * amount[i]], txns)
        v == n * sumsq - sum * sum
        Z(i, k) == CompareSquare(Abs(n * amount[i] - sum), k, v) >= 0
    IN  IF n < MinSampleSize THEN {}
        ELSE IF v = 0 THEN {}
        ELSE {MkAlert("zscore_outlier",
                      IF Z(i, ZHighThreshold) THEN "high" ELSE "medium",
                      <<i>>, category, NoneStr) :
                 i \in {i \in txns : Z(i, ZThreshold)}}

\* lines 357-402: the outliers of one category
CategoryOutliers(rows, category, roundsUp) ==
    LET txns == {i \in DOMAIN rows :
                    rows[i].category = category /\ rows[i].txn_date >= CutoffDate}
        n == Cardinality(txns)
        amount == [i \in txns |-> rows[i].amount_cents]
        sum == SumOver(amount, txns)
        sumsq == SumOver([i \in txns |-> amount[i] * amount[i]], txns)
        v == n * sumsq - sum * sum
        Z(i, k) == ZExceeds(Abs(n * amount[i] - sum), k, v, ExactMean(sum, n), roundsUp)
    IN  IF n < MinSampleSize THEN {}
        ELSE IF v = 0 THEN {}
        ELSE {MkAlert("zscore_outlier",
                      IF Z(i, ZHighThreshold) THEN "high" ELSE "medium",
                      <<i>>, category, NoneStr) :
                 i \in {i \in txns : Z(i, ZThreshold)}}

\* lines 342-353: the categories of the rows since the cutoff
RecentCategories(rows) ==
    {rows[i].category :
        i \in {i \in DOMAIN rows :
                  rows[i].txn_date >= CutoffDate /\ rows[i].category # NoneStr}}

\* lines 338-416 without a failing query
ZscoreAlerts(rows, roundsUp) ==
    UNION {CategoryOutliers(rows, c, roundsUp) : c \in RecentCategories(rows)}

\* lines 446-481: a period's debit total of a category
SpendingIn(rows, category, S) ==
    SumOver([i \in DOMAIN rows |-> rows[i].amount_cents],
            {i \in S : rows[i].category = category /\ rows[i].direction = "debit"})

\* the comparison with the bug of flagging a ratio equal to the multiplier
RatioReaches(recent_amount, historical_amount, multiplier) ==
    IF historical_amount > 0
    THEN recent_amount >= multiplier * historical_amount
    ELSE recent_amount <= multiplier * historical_amount

\* lines 492-495: recent_amount / historical_amount > multiplier, for a
\* historical amount that is not zero; the totals are exact decimals and the
\* quotient keeps 28 digits, so the comparison is that of the exact quotient
RatioExceeds(recent_amount, historical_amount, multiplier) ==
    IF historical_amount > 0
    THEN recent_amount > multiplier * historical_amount
    ELSE recent_amount < multiplier * historical_amount

\* lines 437-512 without a failing query: the categories whose debit total of
\* the window is more than three times that of the 2 * period_days before it
UnusualSpendingAlerts(rows) ==
    LET recent == {i \in DOMAIN rows : InWindow(rows[i])}
        historical == {i \in DOMAIN rows :
                          /\ rows[i].txn_date >= HistoricalStart
                          /\ rows[i].txn_date < CutoffDate}
        Known(S) == {rows[i].category :
                        i \in {i \in S : rows[i].category # NoneStr
                                         /\ rows[i].direction = "debit"}}
        hits == {c \in Known(recent) \cap Known(historical) :
                    /\ SpendingIn(rows, c, historical) # 0
                    /\ RatioExceeds(SpendingIn(rows, c, recent),
                                    SpendingIn(rows, c, historical), SpendMultiplier)}
    IN  {MkAlert("unusual_category_spending",
                 IF RatioExceeds(SpendingIn(rows, c, recent),
                                 SpendingIn(rows, c, historical), SpendHighRatio)
                 THEN "high" ELSE "medium",
                 <<>>, c, NoneStr) : c \in hits}

\* lines 173-201: debits of the window without receipt at or above the
\* threshold, the 20 largest of them
MissingReceiptAlerts(rows) ==
    LET hits == {i \in DOMAIN rows :
                    /\ InWindow(rows[i])
                    /\ rows[i].receipt_url = NoneStr
                    /\ rows[i].amount_cents >= MissingReceiptThresholdCents
                    /\ rows[i].direction = "debit"}
        Larger(i) == {j \in hits :
                         \/ rows[j].amount_cents > rows[i].amount_cents
                         \/ rows[j].amount_cents = rows[i].amount_cents /\ j < i}
    IN  {MkAlert("missing_receipt", "info", <<i>>, rows[i].category, NoneStr) :
            i \in {i \in hits : Cardinality(Larger(i)) < MissingReceiptLimit}}

\* line 237:  txn.confidence and txn.confidence < settings.LOW_CONFIDENCE .
\* A NULL and a Decimal zero are falsy.  LOW_CONFIDENCE is the double 0.80,
\* which is a little more than eight tenths, so the Decimal 0.80 is below it
ReviewReason(confidence) ==
    IF confidence # NullConfidence /\ confidence # 0 /\ confidence <= LOW_CONFIDENCE
    THEN "low confidence" ELSE "high amount"

\* lines 224-252: one warning for each row of the window in review
PendingReviewAlerts(rows) ==
    {MkAlert("low_confidence", "warning", <<i>>, rows[i].category,
             ReviewReason(rows[i].confidence)) :
        i \in {i \in DOMAIN rows : InWindow(rows[i]) /\ rows[i].status = "review"}}

(***************************************************************************)
(* SpecAnomalies: one call of detect_anomalies, pass by pass.              *)
(***************************************************************************)
\* what distinguishes the rows of the tables the detector is run on
MkShape(date, amount, dir, vendor, category, status, confidence, receipt) ==
    [date |-> date, amount |-> amount, dir |-> dir, vendor |-> vendor,
     category |-> category, status |-> status, confidence |-> confidence,
     receipt |-> receipt]

\* row id of a table, with the columns of shape c
AnRow(id, c) ==
    [MkRow(id, c.date, c.amount, c.dir, <<"N", "F">>, c.vendor, NoneStr, NoneStr,
           "amex", <<"h", ToString(id)>>)
     EXCEPT !.category = c.category, !.status = c.status,
            !.confidence = c.confidence, !.receipt_url = c.receipt]

\* the table of n rows, ids 1..n, row i of shape f[i]
AnTable(n, f) == [i \in 1..n |-> AnRow(i, f[i])]

\* rows around the thresholds of the passes: in review with a confidence of
\* 0.90, 0.00, 0.80 and 0.79, not categorized, before the window, a credit, and
\* dated on the cutoff with the missing-receipt threshold as amount
Shapes ==
    { MkShape(80, 5001, "debit", <<"S", "b">>, "Dining", "review", 900, NoneStr),
      MkShape(81, 5001, "debit", <<"S", "b">>, "Dining", "review", 0, NoneStr),
      MkShape(82, 5001, "debit", <<"S", "b">>, "Dining", "review", 800, NoneStr),
      MkShape(79, 784, "debit", <<"S", "b">>, "Dining", "review", 790, NoneStr),
      MkShape(80, 784, "debit", NoneSeq, NoneStr, "ingested", NullConfidence, NoneStr),
      MkShape(50, 784, "debit", <<"S", "b">>, "Dining", "finalized", 900, "r"),
      MkShape(80, 5001, "credit", <<"N", "f">>, "Dining", "finalized", 1000, "r"),
      MkShape(CutoffDate, 2500, "debit", <<"N", "f">>, "Dining", "finalized", 950, NoneStr) }

\* for the z-score and spending passes: rows of one amount in one category, and
\* rows of other amounts, of another category, dated before the window (one of
\* them a negative debit) or dated before the historical baseline
SameShape == MkShape(80, 100, "debit", NoneSeq, "Dining", "finalized", 900, "r")

OtherShapes ==
    { MkShape(80, amt, "debit", NoneSeq, "Dining", "finalized", 900, "r") :
        amt \in {600, 784} }
    \cup
    { MkShape(80, 100, "debit", NoneSeq, "Fuel", "finalized", 900, "r"),
      MkShape(50, 100, "debit", NoneSeq, "Dining", "finalized", 900, "r"),
      MkShape(50, -100, "debit", NoneSeq, "Dining", "finalized", 900, "r"),
      MkShape(HistoricalStart - 1, 100, "debit", NoneSeq, "Dining", "finalized", 900, "r") }

\* k rows of SameShape followed by the rows of shapes f
SpreadTable(k, n, f) ==
    [i \in 1..(k + n) |-> AnRow(i, IF i <= k THEN SameShape ELSE f[i - k])]

\* the amounts 100, 100, 100, 100, 10000 in one category, alone or beside a row
\* of another category or a row of the category dated before the window
ScenarioShape(amt) ==
    MkShape(80, amt, "debit", NoneSeq, "Dining", "finalized", 900, "r")

ScenarioTables ==
    LET five == <<ScenarioShape(100), ScenarioShape(100), ScenarioShape(10000),
                  ScenarioShape(100), ScenarioShape(100)>>
    IN  { AnTable(5, five),
          AnTable(6, Append(five, MkShape(80, 5001, "debit", NoneSeq, "Fuel",
                                          "finalized", 900, "r"))),
          AnTable(6, Append(five, MkShape(50, 100, "debit", NoneSeq, "Dining",
                                          "finalized", 900, "r"))) }

PassNames == {Passes[i] : i \in DOMAIN Passes}

InitAnomalies ==
    /\ \/ \E n \in 0..MaxTxns : \E f \in [1..n -> Shapes] : anDb = AnTable(n, f)
       \/ \E k \in 0..MaxSame : \E n \in 0..MaxOthers : \E f \in [1..n -> OtherShapes] :
             anDb = SpreadTable(k, n, f)
       \/ anDb \in ScenarioTables
    /\ anFail \in {"none"} \cup PassNames
    /\ anOrder = <<>>
    /\ anPc = Passes[1]
    /\ anAlerts = {}
    /\ evIdle
    /\ reIdle
    /\ czIdle
    /\ moreIdle

\* the pass after pass p, or the return of detect_anomalies (lines 63-75)
AfterPass(p) ==
    LET k == CHOOSE k \in DOMAIN Passes : Passes[k] = p
    IN  IF k < Len(Passes) THEN Passes[k + 1] ELSE "returned"

\* a pass without try/except (lines 63, 64, 67, 68): its alerts are added, or
\* its exception leaves detect_anomalies through  except Exception: raise
OpenPass(p, alerts) ==
    /\ anPc = p
    /\ IF anFail = p
       THEN /\ anPc' = "raised"
            /\ anAlerts' = {}
       ELSE /\ anPc' = AfterPass(p)
            /\ anAlerts' = anAlerts \cup alerts
    /\ UNCHANGED <<anDb, anFail, evVars, reVars, czVars, moreVars>>

\* a pass that catches its own exceptions (lines 409-416, 519-526): a failing
\* query leaves it with the list it has, which is empty
GuardedPass(p, alerts) ==
    /\ anPc = p
    /\ anPc' = AfterPass(p)
    /\ anAlerts' = IF anFail = p THEN anAlerts ELSE anAlerts \cup alerts
    /\ UNCHANGED <<anDb, anFail, evVars, reVars, czVars, moreVars>>

\* the orders the query of detect_duplicates may return its rows in
ScanOrders(rows) ==
    {order \in Perms(DuplicateCandidates(rows)) : SortedByDateVendor(rows, order)}

DetectNewVendors ==
    /\ OpenPass("new_vendors", NewVendorAlerts(anDb))
    /\ UNCHANGED anOrder

DetectDuplicates ==
    \E order \in ScanOrders(anDb) :
        /\ OpenPass("duplicates", DuplicateAlerts(anDb, order))
        /\ anOrder' = IF anFail = "duplicates" THEN <<>> ELSE order

DetectZscoreOutliers(roundsUp) ==
    /\ GuardedPass("zscore", ZscoreAlerts(anDb, roundsUp))
    /\ UNCHANGED anOrder

DetectUnusualSpending ==
    /\ GuardedPass("spending", UnusualSpendingAlerts(anDb))
    /\ UNCHANGED anOrder

DetectMissingReceipts ==
    /\ OpenPass("missing_receipts", MissingReceiptAlerts(anDb))
    /\ UNCHANGED anOrder

DetectPendingReview ==
    /\ OpenPass("pending_review", PendingReviewAlerts(anDb))
    /\ UNCHANGED anOrder

NextAnomalies ==
    \/ DetectNewVendors
    \/ DetectDuplicates
    \/ \E roundsUp \in BOOLEAN : DetectZscoreOutliers(roundsUp)
    \/ DetectUnusualSpending
    \/ DetectMissingReceipts
    \/ DetectPendingReview

SpecAnomalies == InitAnomalies /\ [][NextAnomalies]_vars

(***************************************************************************)
(* SpecClean: _clean_descriptor applied to a descriptor and to its result. *)
(***************************************************************************)
\* the descriptors are made of at most MaxPieces of these pieces: letters,
\* white space, processor prefixes, a store number, a STORE group, a trailing
\* number
Pieces ==
    { <<"B">>, <<"s">>, <<" ">>,
      <<"T", "S", "T", "*">>, <<"S", "Q", " ", "*">>, <<"Q", "*">>,
      <<"P", "P", "*">>, <<"S", "P", "*">>,
      <<" ", "#", "1">>, <<" ", "S", "T", "O", "R", "E", " ", "1">>,
      <<" ", "1", "1", "1">> }

RECURSIVE Concat(_)
\* the pieces of a sequence of pieces, joined
Concat(ps) == IF ps = <<>> THEN <<>> ELSE Head(ps) \o Concat(Tail(ps))

InitClean ==
    /\ \E n \in 0..MaxPieces : \E ps \in [1..n -> Pieces] : cdIn = Concat(ps)
    /\ cdOnce = <<>>
    /\ cdTwice = <<>>
    /\ cdPc = "start"
    /\ nvIdle
    /\ ccIdle
    /\ evIdle
    /\ reIdle
    /\ czIdle
    /\ anIdle

CleanOnce ==
    /\ cdPc = "start"
    /\ cdOnce' = CleanDescriptor(cdIn)
    /\ cdPc' = "once"
    /\ UNCHANGED <<cdIn, cdTwice, nvVars, ccVars, evVars, reVars, czVars, anVars>>

CleanTwice ==
    /\ cdPc = "once"
    /\ cdTwice' = CleanDescriptor(cdOnce)
    /\ cdPc' = "twice"
    /\ UNCHANGED <<cdIn, cdOnce, nvVars, ccVars, evVars, reVars, czVars, anVars>>

NextClean == CleanOnce \/ CleanTwice

SpecClean == InitClean /\ [][NextClean]_vars

(***************************************************************************)
(* SpecNormalize: one call of normalize_vendor, query by query.            *)
(***************************************************************************)
\* canonical names (two of them equal but for case) and alias lists
VendorNames == { <<"N", "f">>, <<"N", "F">>, <<"X", "x">> }

AliasLists ==
    { <<>>,
      << <<"S", "B">> >>,
      << <<"s", "b">> >>,
      << <<"T", "S", "T", "*", "S", "B">> >>,
      << <<"X">>, <<"S", "B">> >> }

\* the descriptors normalized: empty, null, a canonical name as written, in
\* another case and with a trailing number, an alias as written, in another
\* case and with a processor prefix, a text that contains a name, a bare
\* processor prefix, and a text that matches nothing
RawDescriptors ==
    { <<>>, NoneSeq,
      <<"N", "f">>, <<"n", "f">>, <<"N", "f", " ", "1", "1", "1">>,
      <<"S", "B">>, <<"S", "b">>, <<"S", "Q", " ", "*", "S", "B">>,
      <<"N", "F", "B">>, <<"T", "S", "T", "*">>, <<"B", "B">> }

\* canonical_vendor is the primary key of vendors (models.py)
DistinctNames(vendors) ==
    \A i, j \in DOMAIN vendors :
        vendors[i].canonical_vendor = vendors[j].canonical_vendor => i = j

InitNormalize ==
    /\ nvRaw \in RawDescriptors
    /\ \E n \in 0..MaxVendors :
          \E names \in [1..n -> VendorNames] : \E aliases \in [1..n -> AliasLists] :
              /\ nvVendors = [i \in 1..n |-> MkVendor(names[i], aliases[i])]
              /\ DistinctNames(nvVendors)
    /\ nvFail \in 0..4
    /\ nvPc = "start"
    /\ nvQueries = 0
    /\ nvErr = "none"
    /\ nvOut = NoneSeq
    /\ cdIdle
    /\ ccIdle
    /\ evIdle
    /\ reIdle
    /\ czIdle
    /\ anIdle

\* lines 81-83: an empty or null descriptor returns None before any query
NvStart ==
    /\ nvPc = "start"
    /\ nvPc' = IF nvRaw = <<>> \/ nvRaw = NoneSeq THEN "returned" ELSE "exact"
    /\ UNCHANGED <<nvRaw, nvVendors, nvFail, nvQueries, nvErr, nvOut,
                   cdVars, ccVars, evVars, reVars, czVars, anVars>>

\* the queries with the bug of letting a lookup error leave normalize_vendor
NvQueryRaising(k, step, hits, next) ==
    /\ nvPc = step
    /\ nvQueries' = nvQueries + 1
    /\ IF nvFail = k
       THEN nvPc' = "raised" /\ nvOut' = nvOut /\ nvErr' = "lookup"
       ELSE IF Cardinality(hits) > 1
       THEN nvPc' = "returned" /\ nvOut' = NoneSeq /\ nvErr' = "multiple"
       ELSE IF hits # {}
       THEN /\ nvPc' = "returned"
            /\ nvOut' = nvVendors[FirstIndex(hits)].canonical_vendor
            /\ nvErr' = nvErr
       ELSE nvPc' = next /\ nvOut' = nvOut /\ nvErr' = nvErr
    /\ UNCHANGED <<nvRaw, nvVendors, nvFail, cdVars, ccVars, evVars, reVars, czVars, anVars>>

\* a query on the canonical name followed by scalar_one_or_none(): query k
\* raises, or several rows come back and scalar_one_or_none() raises, and the
\* except clause (lines 211-218) returns None; one row is the result; no row
\* leads to the next strategy
NvQuery(k, step, hits, next) ==
    /\ nvPc = step
    /\ nvQueries' = nvQueries + 1
    /\ IF nvFail = k
       THEN nvPc' = "returned" /\ nvOut' = NoneSeq /\ nvErr' = "lookup"
       ELSE IF Cardinality(hits) > 1
       THEN nvPc' = "returned" /\ nvOut' = NoneSeq /\ nvErr' = "multiple"
       ELSE IF hits # {}
       THEN /\ nvPc' = "returned"
            /\ nvOut' = nvVendors[FirstIndex(hits)].canonical_vendor
            /\ nvErr' = nvErr
       ELSE nvPc' = next /\ nvOut' = nvOut /\ nvErr' = nvErr
    /\ UNCHANGED <<nvRaw, nvVendors, nvFail, cdVars, ccVars, evVars, reVars, czVars, anVars>>

\* lines 97-108
NvExact ==
    /\ nvPc = "exact"
    /\ NvQuery(1, "exact", ExactHits(nvRaw, nvVendors), "nocase")

\* lines 110-126
NvNoCase ==
    /\ nvPc = "nocase"
    /\ NvQuery(2, "nocase", NoCaseHits(nvRaw, nvVendors), "cleaned")

\* lines 128-146: the query is made only when cleaning changed the text
NvCleaned ==
    /\ nvPc = "cleaned"
    /\ IF CleanDescriptor(nvRaw) # Upper(nvRaw)
       THEN NvQuery(3, "cleaned", CleanedHits(nvRaw, nvVendors), "scan")
       ELSE /\ nvPc' = "scan"
            /\ UNCHANGED <<nvRaw, nvVendors, nvFail, nvQueries, nvErr, nvOut,
                           cdVars, ccVars, evVars, reVars, czVars, anVars>>

\* lines 148-209: all vendors are loaded; the first vendor, in the order
\* loaded, with an alias that passes a test is the result, else the first
\* vendor whose name contains or is contained in the cleaned descriptor
NvScan ==
    /\ nvPc = "scan"
    /\ nvQueries' = nvQueries + 1
    /\ nvPc' = "returned"
    /\ nvErr' = IF nvFail = 4 THEN "lookup" ELSE nvErr
    /\ nvOut' =
          IF nvFail = 4 THEN NoneSeq
          ELSE IF AliasHits(nvRaw, nvVendors) # {}
          THEN nvVendors[FirstIndex(AliasHits(nvRaw, nvVendors))].canonical_vendor
          ELSE IF FuzzyHits(nvRaw, nvVendors) # {}
          THEN nvVendors[FirstIndex(FuzzyHits(nvRaw, nvVendors))].canonical_vendor
          ELSE NoneSeq
    /\ UNCHANGED <<nvRaw, nvVendors, nvFail, cdVars, ccVars, evVars, reVars, czVars, anVars>>

NextNormalize ==
    \/ NvStart
    \/ NvExact
    \/ NvNoCase
    \/ NvCleaned
    \/ NvScan

SpecNormalize == InitNormalize /\ [][NextNormalize]_vars

(***************************************************************************)
(* SpecConcurrent: two categorize requests for one transaction, each in    *)
(* its own session, interleaved at their awaits: the SELECT, the call of   *)
(* categorize_transaction, the commit.                                     *)
(***************************************************************************)
Requests == {1, 2}

\* the row before the two requests: as ingested, or categorized before
ConcurrentRows ==
    { MkRow(1, 1, amt, "debit", <<"S", "B">>, NoneSeq, "5814", NoneStr, "amex",
            ComputeHashId(1, amt, <<"S", "B">>, "amex")) : amt \in {784, 5001} }
    \cup
    { UpdatedRow(MkRow(1, 1, 784, "debit", <<"S", "B">>, NoneSeq, "5814", NoneStr, "amex",
                       ComputeHashId(1, 784, <<"S", "B">>, "amex")),
                 MkResult("Dining", "Coffee", 900, NoneSeq)) }

\* what categorize_transaction may return for the row: results of the
\* classifier with and without subcategory and vendor, and the fixed default
ConcurrentResults ==
    { MkResult("Dining", "Coffee", 900, NoneSeq),
      MkResult("Dining", "Coffee", 950, <<"S", "x">>),
      MkResult("Shopping", NoneStr, 500, NoneSeq),
      MkResult("Shopping", "Uncategorized", 300, <<"S", "B">>) }

InitConcurrent ==
    /\ ccRow \in ConcurrentRows
    /\ ccSnap = [p \in Requests |-> ccRow]
    /\ ccRes = [p \in Requests |-> NoResult]
    /\ ccPc = [p \in Requests |-> "start"]
    /\ ccOrder = <<>>
    /\ cdIdle
    /\ nvIdle
    /\ evIdle
    /\ reIdle
    /\ czIdle
    /\ anIdle

\* the flush with the bug of never writing the status column
WrittenRowKeepStatus(stored, loaded, c) ==
    LET new == UpdatedRow(loaded, c)
    IN  [stored EXCEPT
            !.category = IF c.category # loaded.category THEN new.category ELSE @,
            !.subcategory = IF c.subcategory # loaded.subcategory THEN new.subcategory ELSE @,
            !.confidence = IF c.confidence # loaded.confidence THEN new.confidence ELSE @,
            !.canonical_vendor =
                IF new.canonical_vendor # loaded.canonical_vendor
                THEN new.canonical_vendor ELSE @]

\* routers/categorize.py lines 95-113: the handler assigns category,
\* subcategory, confidence, canonical_vendor and status on the object its
\* session loaded; the commit flushes an UPDATE of the columns whose assigned
\* value differs from the loaded one (the ORM's unit of work), the other
\* columns of the stored row stay as they are
WrittenRow(stored, loaded, c) ==
    LET new == UpdatedRow(loaded, c)
    IN  [stored EXCEPT
            !.category = IF c.category # loaded.category THEN new.category ELSE @,
            !.subcategory = IF c.subcategory # loaded.subcategory THEN new.subcategory ELSE @,
            !.confidence = IF c.confidence # loaded.confidence THEN new.confidence ELSE @,
            !.canonical_vendor =
                IF new.canonical_vendor # loaded.canonical_vendor
                THEN new.canonical_vendor ELSE @,
            !.status = IF new.status # loaded.status THEN new.status ELSE @]

\* lines 79-84: the session reads the row
CcLoad(p) ==
    /\ ccPc[p] = "start"
    /\ ccSnap' = [ccSnap EXCEPT ![p] = ccRow]
    /\ ccPc' = [ccPc EXCEPT ![p] = "loaded"]
    /\ UNCHANGED <<ccRow, ccRes, ccOrder, cdVars, nvVars, evVars, reVars, czVars, anVars>>

\* line 93: categorize_transaction returns a result
CcCategorize(p, c) ==
    /\ ccPc[p] = "loaded"
    /\ ccRes' = [ccRes EXCEPT ![p] = c]
    /\ ccPc' = [ccPc EXCEPT ![p] = "returned"]
    /\ UNCHANGED <<ccRow, ccSnap, ccOrder, cdVars, nvVars, evVars, reVars, czVars, anVars>>

\* line 93: categorize_transaction raises (lines 132-138: rollback, 500)
CcRaise(p) ==
    /\ ccPc[p] = "loaded"
    /\ ccPc' = [ccPc EXCEPT ![p] = "failed"]
    /\ UNCHANGED <<ccRow, ccSnap, ccRes, ccOrder, cdVars, nvVars, evVars, reVars, czVars, anVars>>

\* lines 95-113: assign, decide the status, commit
CcCommit(p) ==
    /\ ccPc[p] = "returned"
    /\ ccRow' = WrittenRow(ccRow, ccSnap[p], ccRes[p])
    /\ ccOrder' = Append(ccOrder, p)
    /\ ccPc' = [ccPc EXCEPT ![p] = "committed"]
    /\ UNCHANGED <<ccSnap, ccRes, cdVars, nvVars, evVars, reVars, czVars, anVars>>

NextConcurrent ==
    \/ \E p \in Requests : CcLoad(p)
    \/ \E p \in Requests, c \in ConcurrentResults : CcCategorize(p, c)
    \/ \E p \in Requests : CcRaise(p)
    \/ \E p \in Requests : CcCommit(p)

SpecConcurrent == InitConcurrent /\ [][NextConcurrent]_vars

(***************************************************************************)
(* Claims about evaluate_condition (SpecEval).                             *)
(***************************************************************************)
\* Python's  a and b  and  a or b  on the evaluator's outcomes: the right
\* operand is evaluated only when the left one does not decide, and an
\* exception raised by an operand that is evaluated leaves the expression
PyAnd3(a, b) == IF a = "T" THEN b ELSE a
PyOr3(a, b) == IF a = "F" THEN b ELSE a

\* C3: for every transaction, {and: []} and {all: []} evaluate to True and
\* {or: []} and {any: []} evaluate to False, and none of them raises.
C3_EmptyLists ==
    (evOut # "none" /\ evCond \in {Logic(k, <<>>) : k \in LogicKeys})
        => evOut = (IF evCond.keys \subseteq {"and", "all"} THEN "T" ELSE "F")

\* C4: a two-element and/all is the conjunction of its two sub-conditions and a
\* two-element or/any is their disjunction (as Python evaluates  a and b ,
\* a or b ), whatever the sub-conditions nest; all and any give what and and or
\* give on the same list.
C4_PairwiseLogic ==
    (evOut # "none" /\ evCond.keys \subseteq LogicKeys /\ Len(evCond.subs) = 2)
        => LET a == EvaluateCondition(evT, evCond.subs[1])
               b == EvaluateCondition(evT, evCond.subs[2])
           IN  /\ evCond.keys \subseteq {"and", "all"} => evOut = PyAnd3(a, b)
               /\ evCond.keys \subseteq {"or", "any"} => evOut = PyOr3(a, b)
               /\ evCond.keys = {"all"} =>
                      evOut = EvaluateCondition(evT, Logic("and", evCond.subs))
               /\ evCond.keys = {"any"} =>
                      evOut = EvaluateCondition(evT, Logic("or", evCond.subs))

\* a conjunction of a nested condition and an atom, both true, was evaluated
C4_Witness ==
    /\ evOut = "T"
    /\ evCond.keys = {"all"}
    /\ Len(evCond.subs) = 2
    /\ Len(evCond.subs[1].subs) = 2
    /\ evCond.subs[2].keys = {"account"}

(***************************************************************************)
(* Claims about apply_rules (SpecRules).                                   *)
(***************************************************************************)
\* the active rules whose condition is true for the transaction
Matching(t, rows) ==
    {r \in rows : r.active /\ EvaluateCondition(t, r.condition) = "T"}

\* C1: apply_rules returns the action of an active rule whose condition is
\* true and whose priority number is the smallest among such rules; it returns
\* None when no active rule's condition is true; the action of an inactive rule
\* is never returned.
C1_FirstByPriority ==
    reOut.kind # "idle" =>
        /\ Matching(reT, reRules) = {} => reOut.kind = "none"
        /\ Matching(reT, reRules) # {} =>
              /\ reOut.kind = "action"
              /\ \E r \in Matching(reT, reRules) :
                    /\ reOut.action = r.action
                    /\ \A q \in Matching(reT, reRules) : r.priority <= q.priority
        /\ \A r \in reRules : ~r.active => reOut.action # r.action

\* an inactive priority-1 rule whose condition is true was passed over for an
\* active priority-100 rule
C1_Witness ==
    /\ reOut.kind = "action"
    /\ \E r, q \in reRules :
          /\ ~r.active /\ r.priority = 1
          /\ EvaluateCondition(reT, r.condition) = "T"
          /\ q.active /\ q.priority = 100
          /\ reOut.action = q.action

\* the rules of the order whose condition does not raise
WithoutErroring(t, order) ==
    LET Quiet(r) == EvaluateCondition(t, r.condition) # "E"
    IN  SelectSeq(order, Quiet)

Loaded == ruleRes.kind # "idle"

\* categorize_transaction handed a result back (to be committed or committed)
Returned == Loaded /\ pc \in {"returned", "done"} /\ err = "none"

\* categorize_with_openai has ended, with a result or an exception
CallEnded == Loaded /\ calls > 0 /\ pc \in {"returned", "raised", "done"}

\* the failure classes of the responses so far
Classes == [i \in DOMAIN hist |-> FailureClass(hist[i])]

FourClasses == {"TimeoutError", "JSONDecodeError", "RateLimitError", "APIError"}

\* the last response was a well-formed body that passed validation
LastOk == hist # <<>> /\ Classes[Len(hist)] = "ok"

\* the object the last response carried, as the classifier sent it
LastJson == hist[Len(hist)].json

AllFailedWith(k) ==
    /\ Loaded
    /\ Len(hist) = MaxRetries + 1
    /\ \A i \in DOMAIN hist : Classes[i] = k

LastLacksCategory ==
    /\ hist # <<>>
    /\ hist[Len(hist)].kind = "content"
    /\ ParseOpenAIResponse(hist[Len(hist)]).exc = "none"
    /\ ~TruthyStr(ParseOpenAIResponse(hist[Len(hist)]).result.category)

\* C8: a response without category is a failed attempt on the retry path: while
\* attempts remain it does not end the call, the classifier is called again.
C8_MissingCategoryRetries ==
    (Loaded /\ LastLacksCategory /\ Len(hist) <= MaxRetries) => pc = "classify"

\* C9: a result of the classifier path has a confidence in [0, 1]: a reported
\* confidence above 1 gives 1.00, one below 0 gives 0.00, and one in range is
\* kept when the category is in the taxonomy.
C9_ConfidenceClamped ==
    (Returned /\ calls > 0) =>
        /\ 0 <= ret.confidence /\ ret.confidence <= 1000
        /\ (LastOk /\ LastJson.category \in TAXONOMY /\ LastJson.confidence.kind = "num") =>
              ret.confidence =
                  (IF LastJson.confidence.v > 1000 THEN 1000
                   ELSE IF LastJson.confidence.v < 0 THEN 0
                   ELSE LastJson.confidence.v)

\* a reported confidence below zero was returned as 0.00
C9_Witness ==
    /\ Returned /\ LastOk
    /\ LastJson.category \in TAXONOMY
    /\ LastJson.confidence = ConfNum(-200)
    /\ ret.confidence = 0

\* C10: a category outside the taxonomy comes back as Shopping with confidence
\* 0.50 whatever confidence was reported; every category categorize_with_openai
\* returns is in the taxonomy.
C10_UnknownCategoryFallback ==
    (Returned /\ calls > 0) =>
        /\ ret.category \in TAXONOMY
        /\ (LastOk /\ LastJson.category \notin TAXONOMY) =>
              (ret.category = "Shopping" /\ ret.confidence = 500)

\* an unknown category reported with confidence 1.5 came back as Shopping, 0.50
C10_Witness ==
    /\ Returned /\ LastOk
    /\ LastJson.category = "InvalidX"
    /\ LastJson.confidence = ConfNum(1500)
    /\ ret.category = "Shopping" /\ ret.confidence = 500

(***************************************************************************)
(* Claims about the handlers' writes (Spec, SpecApi).                      *)
(***************************************************************************)
\* the categorize request of transaction req was answered with success
CategorizeSucceeded == op = "categorize" /\ pc = "done" /\ http = 200

\* C11: right after a successful categorize the stored status is review if and
\* only if the stored confidence is strictly below the low-confidence threshold
\* or the amount strictly exceeds the review-amount threshold, and finalized
\* otherwise; a stored confidence of exactly 0.80 with an amount that is not
\* above the review threshold gives finalized.
C11_StatusFromStored ==
    CategorizeSucceeded =>
        db[req].status =
            (IF \/ db[req].confidence < LOW_CONFIDENCE
                \/ db[req].amount_cents > REVIEW_AMOUNT_CENTS
             THEN "review" ELSE "finalized")

\* C12: a stored confidence of exactly 1.00 is reserved for rule matches and
\* manual overrides: over any sequence of ingest, categorize and finalize
\* requests, a step that makes a row's stored confidence 1.00 is a finalize or
\* the commit of a rule match, never the commit of a classifier result.
C12_FullConfidenceReserved ==
    [][\A i \in DOMAIN db :
          (db'[i].confidence = 1000 /\ db[i].confidence # 1000) =>
              \/ op' = "finalize"
              \/ op' = "categorize" /\ ruleRes.kind = "action" /\ calls = 0]_vars

\* the content a row was ingested with
ContentTuple(row) ==
    <<row.txn_date, row.amount_cents, row.raw_descriptor, row.source_account>>

\* C13: ingestion is idempotent on the content tuple: after an ingest there is
\* at most one row per (date, amount, descriptor, account), and when a row
\* with the ingested tuple existed the request created no second row,
\* answered that row's id and wrote its memo to that row.
C13_IngestIdempotent ==
    [][op' = "ingest" =>
          /\ \A i, j \in DOMAIN db' :
                ContentTuple(db'[i]) = ContentTuple(db'[j]) => i = j
          /\ \A i \in DOMAIN db :
                ContentTuple(db[i]) = ContentTuple(sent') =>
                    /\ Len(db') = Len(db)
                    /\ out' = i
                    /\ db'[i].memo = sent'.memo]_vars

\* the statuses a categorized transaction has
Categorized == {"review", "finalized"}

\* C14: a transaction's status follows ingested -> review | finalized: a row is
\* created as ingested, and over any sequence of ingest (re-ingestion of the
\* same hash included), categorize and finalize requests a row whose status is
\* review or finalized is never set back to ingested.
C14_NeverBackToIngested ==
    [][/\ \A i \in DOMAIN db' \ DOMAIN db : db'[i].status = "ingested"
       /\ \A i \in DOMAIN db :
             db[i].status \in Categorized => db'[i].status \in Categorized]_vars

\* an ingest request hit the hash of a row in review and rewrote its memo
C14_Witness ==
    /\ op = "ingest"
    /\ out \in DOMAIN db
    /\ db[out].status = "review"
    /\ db[out].memo = "m"

\* C15: finalize on an existing transaction, whatever its status, sets its
\* category and subcategory to the requested values, its status to finalized
\* and its confidence to 1.00; finalize on an unknown id answers not-found and
\* changes no transaction.
C15_FinalizeOverrides ==
    [][op' = "finalize" =>
          IF req' \in DOMAIN db
          THEN /\ http' = 200
               /\ db'[req'].category = sent'.category
               /\ db'[req'].subcategory = sent'.subcategory
               /\ db'[req'].status = "finalized"
               /\ db'[req'].confidence = 1000
               /\ \A i \in DOMAIN db \ {req'} : db'[i] = db[i]
          ELSE /\ http' = 404
               /\ db' = db]_vars

\* a row the classifier had categorized (it carries the classifier's vendor) was
\* finalized by hand, without subcategory
C15_Witness ==
    /\ op = "finalize"
    /\ http = 200
    /\ db[req].canonical_vendor = <<"S", "x">>
    /\ db[req].category = "Travel-Air"
    /\ db[req].subcategory = NoneStr
    /\ db[req].status = "finalized"
    /\ db[req].confidence = 1000

(***************************************************************************)
(* Claims about the anomaly detector (SpecAnomalies).                      *)
(***************************************************************************)
\* the alerts of a type among those collected
OfType(type) == {a \in anAlerts : a.type = type}

\* the rows of a category the z-score pass looks at
SinceCutoff(category) ==
    {i \in DOMAIN anDb :
        anDb[i].category = category /\ anDb[i].txn_date >= CutoffDate}

\* detect_anomalies returned and its z-score pass ran without failure
ZscoreRan == anPc = "returned" /\ anFail # "zscore"

\* the category's rows are exactly five, of amounts 100, 100, 100, 100, 10000
FiveWithOneLarge(category) ==
    /\ Cardinality(SinceCutoff(category)) = 5
    /\ Cardinality({i \in SinceCutoff(category) : anDb[i].amount_cents = 100}) = 4
    /\ Cardinality({i \in SinceCutoff(category) : anDb[i].amount_cents = 10000}) = 1

\* C16 as claimed: for a category whose rows in the window are exactly five, of
\* amounts 100, 100, 100, 100 and 10000, the z-score pass flags the 10000 row
\* with severity high and flags none of the rows of 100.
C16_LargeAmountFlaggedHigh ==
    (ZscoreRan /\ FiveWithOneLarge("Dining")) =>
        \A i \in SinceCutoff("Dining") :
            IF anDb[i].amount_cents = 10000
            THEN MkAlert("zscore_outlier", "high", <<i>>, "Dining", NoneStr) \in anAlerts
            ELSE \A a \in OfType("zscore_outlier") : a.ids # <<i>>

\* C16 as amended: for such a category the z-score pass flags none of the five
\* rows: the 10000 row lies exactly 2.0 population standard deviations from the
\* mean (mean 2080, deviation 3960), which does not exceed the threshold 2.0.
C16_LargeAmountAtThreshold ==
    (ZscoreRan /\ FiveWithOneLarge("Dining")) =>
        \A a \in OfType("zscore_outlier") : a.category # "Dining"

\* the five rows were analysed beside a sixth row of the category dated before
\* the window
C16_Witness ==
    /\ ZscoreRan /\ anFail = "none"
    /\ FiveWithOneLarge("Dining")
    /\ \E i \in DOMAIN anDb : anDb[i].category = "Dining" /\ anDb[i].txn_date < CutoffDate

\* n * n * variance of the category's amounts, and n * amount - sum of a row
ScaledVariance(S) ==
    Cardinality(S) * SumOver([i \in S |-> anDb[i].amount_cents * anDb[i].amount_cents], S)
        - SumOver([i \in S |-> anDb[i].amount_cents], S)
            * SumOver([i \in S |-> anDb[i].amount_cents], S)

ScaledDeviation(i, S) ==
    Abs(Cardinality(S) * anDb[i].amount_cents - SumOver([j \in S |-> anDb[j].amount_cents], S))

\* C17: in the z-score pass, for each category with at least 5 rows in the
\* window, mean m and non-zero population standard deviation s, a row is
\* alerted if and only if |amount - m| > 2.0 * s, with severity high if
\* |amount - m| > 3.0 * s and medium otherwise; a category with fewer than 5
\* rows or with zero variance gives no alert.
C17_AlertIffBeyondTwoDeviations ==
    ZscoreRan =>
        \A c \in {anDb[i].category : i \in DOMAIN anDb} :
            LET S == SinceCutoff(c)
                mine == {a \in OfType("zscore_outlier") : a.category = c}
            IN  IF Cardinality(S) < MinSampleSize \/ ScaledVariance(S) = 0
                THEN mine = {}
                ELSE mine =
                       {MkAlert("zscore_outlier",
                                IF CompareSquare(ScaledDeviation(i, S), 3, ScaledVariance(S)) = 1
                                THEN "high" ELSE "medium",
                                <<i>>, c, NoneStr) :
                           i \in {i \in S :
                                     CompareSquare(ScaledDeviation(i, S), 2,
                                                   ScaledVariance(S)) = 1}}

\* detect_duplicates has run and detect_anomalies has not raised since
DuplicatesRan == anPc \in {"zscore", "spending", "missing_receipts", "pending_review",
                           "returned"}

\* the rows scanned that share a row's (vendor, amount, date)
GroupOf(i) ==
    {j \in DuplicateCandidates(anDb) : DuplicateKey(anDb[j]) = DuplicateKey(anDb[i])}

\* where the scan met a row
ScanPosition(i) == CHOOSE p \in DOMAIN anOrder : anOrder[p] = i

\* the member of a group the scan met first
FirstSeen(G) == CHOOSE i \in G : \A j \in G : ScanPosition(i) <= ScanPosition(j)

C19_ReviewReason ==
    anPc = "returned" =>
        OfType("low_confidence") =
            {MkAlert("low_confidence", "warning", <<i>>, anDb[i].category,
                     IF /\ anDb[i].confidence # NullConfidence
                        /\ anDb[i].confidence < LOW_CONFIDENCE
                     THEN "low confidence" ELSE "high amount") :
                i \in {i \in DOMAIN anDb : InWindow(anDb[i]) /\ anDb[i].status = "review"}}

\* the type of the alerts of a pass
AlertType(p) ==
    CASE p = "new_vendors" -> "new_vendor_over_threshold"
      [] p = "duplicates" -> "duplicate_warning"
      [] p = "zscore" -> "zscore_outlier"
      [] p = "spending" -> "unusual_category_spending"
      [] p = "missing_receipts" -> "missing_receipt"
      [] p = "pending_review" -> "low_confidence"

\* what a pass gives on the table when it does not fail
PassGives(p, alerts) ==
    CASE p = "new_vendors" -> alerts = NewVendorAlerts(anDb)
      [] p = "duplicates" -> alerts = DuplicateAlerts(anDb, anOrder)
      [] p = "zscore" -> \E roundsUp \in BOOLEAN : alerts = ZscoreAlerts(anDb, roundsUp)
      [] p = "spending" -> alerts = UnusualSpendingAlerts(anDb)
      [] p = "missing_receipts" -> alerts = MissingReceiptAlerts(anDb)
      [] p = "pending_review" -> alerts = PendingReviewAlerts(anDb)

\* C20: in detect_anomalies a failure inside any single one of the six passes
\* does not abort the others: detect_anomalies returns, the failing pass
\* contributes no alert and the alerts of every other pass are returned.
C20_PassFailureIsolated ==
    /\ anPc # "raised"
    /\ anPc = "returned" =>
          \A p \in PassNames :
              IF anFail = p THEN OfType(AlertType(p)) = {}
              ELSE PassGives(p, OfType(AlertType(p)))

\* detect_new_vendors has run and detect_anomalies has not raised since
NewVendorsRan == anPc \notin {"new_vendors", "raised"}

\* the vendor of row i has a row dated before row i
HasEarlierRow(i) ==
    \E j \in DOMAIN anDb :
        /\ anDb[j].canonical_vendor = anDb[i].canonical_vendor
        /\ anDb[j].txn_date < anDb[i].txn_date

SpendingRan == anPc \in {"missing_receipts", "pending_review", "returned"} /\ anFail # "spending"

\* the debit total of a category over the rows dated from lo to hi
DebitTotal(c, lo, hi) ==
    SumOver([i \in DOMAIN anDb |-> anDb[i].amount_cents],
            {i \in DOMAIN anDb : /\ anDb[i].category = c
                                 /\ anDb[i].direction = "debit"
                                 /\ anDb[i].txn_date >= lo
                                 /\ anDb[i].txn_date <= hi})

RecentTotal(c) == DebitTotal(c, CutoffDate, Today)

\* the baseline: the 2 * LookbackDays days that end the day before the cutoff
BaselineTotal(c) == DebitTotal(c, CutoffDate - 2 * LookbackDays, CutoffDate - 1)

\* recent / baseline > k, for a baseline that is not zero
RatioAbove(c, k) ==
    \/ BaselineTotal(c) > 0 /\ RecentTotal(c) > k * BaselineTotal(c)
    \/ BaselineTotal(c) < 0 /\ RecentTotal(c) < k * BaselineTotal(c)

C22_WitnessStart ==
    /\ SpendingRan
    /\ \E i \in DOMAIN anDb : anDb[i].category = "Dining" /\ anDb[i].txn_date = CutoffDate
    /\ RecentTotal("Dining") = 2500
    /\ \E a \in OfType("unusual_category_spending") : a.category = "Dining"

(***************************************************************************)
(* Claims about _clean_descriptor (SpecClean).                             *)
(***************************************************************************)
\* C30: descriptor cleaning is idempotent: for every raw descriptor d,
\* _clean_descriptor(_clean_descriptor(d)) equals _clean_descriptor(d),
\* descriptors with several trailing number groups or several processor
\* prefixes included.
C30_CleanIdempotent == cdPc = "twice" => cdTwice = cdOnce

(***************************************************************************)
(* Claims about normalize_vendor (SpecNormalize).                          *)
(***************************************************************************)
\* the vendors a strategy of the cascade hits, each strategy taken over the
\* whole table: 1 exact name, 2 name without case, 3 cleaned descriptor against
\* the name, 4 exact alias, 5 alias without case, 6 cleaned alias, 7 containment
StrategyHits(k) ==
    LET Name(i) == nvVendors[i].canonical_vendor
        SomeAlias(i, Test(_)) ==
            \E n \in DOMAIN nvVendors[i].aliases : Test(nvVendors[i].aliases[n])
        IsRaw(a) == a = nvRaw
        IsRawNoCase(a) == Upper(a) = Upper(nvRaw)
        IsRawCleaned(a) == CleanDescriptor(a) = CleanDescriptor(nvRaw)
    IN  CASE k = 1 -> {i \in DOMAIN nvVendors : Name(i) = nvRaw}
          [] k = 2 -> {i \in DOMAIN nvVendors : Upper(Name(i)) = Upper(nvRaw)}
          [] k = 3 -> {i \in DOMAIN nvVendors : Upper(Name(i)) = CleanDescriptor(nvRaw)}
          [] k = 4 -> {i \in DOMAIN nvVendors : SomeAlias(i, IsRaw)}
          [] k = 5 -> {i \in DOMAIN nvVendors : SomeAlias(i, IsRawNoCase)}
          [] k = 6 -> {i \in DOMAIN nvVendors : SomeAlias(i, IsRawCleaned)}
          [] k = 7 -> {i \in DOMAIN nvVendors :
                          \/ IsSubstring(Upper(Name(i)), CleanDescriptor(nvRaw))
                          \/ IsSubstring(CleanDescriptor(nvRaw), Upper(Name(i)))}

\* normalize_vendor returned for a descriptor that is not empty, no query
\* having failed
NormalizedWithoutError ==
    nvPc = "returned" /\ nvFail = 0 /\ nvRaw # <<>> /\ nvRaw # NoneSeq

\* C23: normalize_vendor returns the vendor of the first strategy that hits,
\* in the order exact name, name without case, cleaned descriptor against the
\* name, exact alias, alias without case, cleaned alias, containment, each
\* strategy being tried over all vendors before the next one: an exact alias
\* match on any vendor wins over a match without case or a cleaned match on
\* another vendor.
C23_CascadeOrder ==
    NormalizedWithoutError =>
        IF \A k \in 1..7 : StrategyHits(k) = {} THEN nvOut = NoneSeq
        ELSE LET first == CHOOSE k \in 1..7 :
                              StrategyHits(k) # {} /\ \A n \in 1..(k - 1) : StrategyHits(n) = {}
             IN  nvOut \in {nvVendors[i].canonical_vendor : i \in StrategyHits(first)}

\* C24: normalize_vendor never fails: a lookup error raised at any step of the
\* cascade is swallowed and the result is no match; an empty or null
\* descriptor gives no match without any query; the result is no match or the
\* canonical name of a vendor of the table.
C24_NeverFails ==
    /\ nvPc # "raised"
    /\ nvPc = "returned" =>
          /\ nvErr # "none" => nvOut = NoneSeq
          /\ (nvRaw = <<>> \/ nvRaw = NoneSeq) => (nvQueries = 0 /\ nvOut = NoneSeq)
          /\ nvOut \in {NoneSeq} \cup {nvVendors[i].canonical_vendor : i \in DOMAIN nvVendors}

\* the query that loads all vendors failed after three queries without a hit,
\* on a table where an alias matches: the result is no match
C24_Witness ==
    /\ nvPc = "returned"
    /\ nvErr = "lookup"
    /\ nvQueries = 4
    /\ StrategyHits(6) # {}
    /\ nvOut = NoneSeq

(***************************************************************************)
(* Claims about amount_range and unknown conditions (SpecEval, SpecRules). *)
(***************************************************************************)
\* C25: the amount_range condition is inclusive at both bounds: for a
\* condition {amount_range: [min, max]} evaluate_condition returns true if and
\* only if min <= amount_cents <= max; amount == min and amount == max both
\* match, and a range with min > max matches no transaction.
C25_AmountRangeInclusive ==
    (evOut # "none" /\ evCond.keys = {"amount_range"}) =>
        /\ evOut \in {"T", "F"}
        /\ evOut = "T" <=> (evCond.lo <= evT.amount_cents /\ evT.amount_cents <= evCond.hi)
        /\ evT.amount_cents \in {evCond.lo, evCond.hi} /\ evCond.lo <= evCond.hi
              => evOut = "T"
        /\ evCond.lo > evCond.hi => evOut = "F"

\* an amount equal to the upper bound of a range that is wider than one value
\* matched
C25_Witness ==
    /\ evOut = "T"
    /\ evCond.keys = {"amount_range"}
    /\ evCond.lo < evCond.hi
    /\ evT.amount_cents = evCond.hi

\* the condition has none of the keys evaluate_condition knows
Unrecognized(c) ==
    c.keys \cap {"and", "all", "or", "any", "contains", "regex", "mcc", "mcc_in",
                 "amount_range", "account", "direction"} = {}

\* the rows of an order whose condition has a known key, in the same order
RECURSIVE Recognized(_)
Recognized(order) ==
    IF order = <<>> THEN <<>>
    ELSE IF Unrecognized(Head(order).condition) THEN Recognized(Tail(order))
    ELSE <<Head(order)>> \o Recognized(Tail(order))

\* C26: a condition with no recognized key evaluates to false without an
\* error, so a rule that carries one never matches and never keeps
\* apply_rules from reaching later rules: apply_rules returns, never with the
\* action of such a rule, what it would return without these rules.
C26_UnknownKeyIsMiss ==
    reOut.kind # "idle" =>
        /\ \A i \in DOMAIN reOrder :
              Unrecognized(reOrder[i].condition) =>
                  /\ EvaluateCondition(reT, reOrder[i].condition) = "F"
                  /\ reOut # RuleResult("action", reOrder[i].action)
        /\ reOut.kind # "raise"
        /\ reOut = RuleLoop(reT, Recognized(reOrder), 1)

\* a rule with an unknown key came first and the rule after it gave the result
C26_Witness ==
    /\ reOut.kind = "action"
    /\ Len(reOrder) >= 2
    /\ Unrecognized(reOrder[1].condition)
    /\ reOut.action = reOrder[2].action

(***************************************************************************)
(* Claims about failures of the classifier (Spec).                         *)
(***************************************************************************)
\* every response of the sequence is a timeout
AllTimeouts(h) == h # <<>> /\ \A i \in DOMAIN h : h[i].kind = "TimeoutError"

\* C27: if the classifier times out on every attempt while a transaction is
\* categorized, the categorize operation reports a failure to its caller and
\* the row's category, subcategory, confidence, canonical vendor and status
\* are what they were before the operation: no step of such an operation
\* changes the table, and the operation ends answering 500 after
\* max_retries + 1 requests.
C27_TimeoutLeavesRow ==
    [][(op' = "categorize" /\ AllTimeouts(hist')) =>
          /\ db' = db
          /\ pc' # "returned"
          /\ pc' = "done" => (http' = 500 /\ Len(hist') = MaxRetries + 1)]_vars

\* a categorized row was categorized again, every attempt timed out, and the
\* request was answered 500 with the row as it was
C27_Witness ==
    /\ op = "categorize"
    /\ pc = "done"
    /\ AllTimeouts(hist)
    /\ http = 500
    /\ served = 2
    /\ db[req].status # "ingested"

\* all max_retries + 1 attempts of the call failed, and the call has ended
AllAttemptsFailed ==
    /\ Loaded
    /\ Len(hist) = MaxRetries + 1
    /\ \A i \in DOMAIN hist : Classes[i] # "ok"
    /\ pc \in {"returned", "raised", "done"}

\* C28: in categorize_with_openai the attempt budget is shared by all failure
\* classes and the outcome on exhaustion is decided by the class of the last
\* failure only: for any sequence of max_retries + 1 failing attempts, the call
\* propagates an error iff the last failure is a timeout or a rate limit, and
\* returns the fixed default result iff the last failure is a malformed body or
\* another API error, whatever the classes of the earlier failures.
C28_LastFailureDecides ==
    AllAttemptsFailed =>
        /\ err # "none" <=> Classes[Len(hist)] \in {"TimeoutError", "RateLimitError"}
        /\ (err = "none" /\ ret = DefaultResult(db[req]))
              <=> Classes[Len(hist)] \in {"JSONDecodeError", "APIError"}

(***************************************************************************)
(* C29: two categorize requests for the same transaction.                  *)
(***************************************************************************)
BothCommitted == ccPc # <<>> /\ \A p \in Requests : ccPc[p] = "committed"

\* the row a request computed from the row it loaded
ComputedRow(p) == UpdatedRow(ccSnap[p], ccRes[p])

\* the column has, in the stored row, the value request p computed for it
ColumnFrom(p, col) ==
    CASE col = "category" -> ccRow.category = ComputedRow(p).category
      [] col = "subcategory" -> ccRow.subcategory = ComputedRow(p).subcategory
      [] col = "confidence" -> ccRow.confidence = ComputedRow(p).confidence
      [] col = "status" -> ccRow.status = ComputedRow(p).status

CategorizedColumns == {"category", "subcategory", "confidence", "status"}

\* request p assigned, in every one of the four columns, a value other than
\* the one it had loaded
ChangesAllColumns(p) ==
    /\ ccRes[p].category # ccSnap[p].category
    /\ ccRes[p].subcategory # ccSnap[p].subcategory
    /\ ccRes[p].confidence # ccSnap[p].confidence
    /\ ComputedRow(p).status # ccSnap[p].status

\* C29: after two categorize operations on the same transaction have both
\* committed, the stored category, subcategory, confidence and status are all
\* the values of the operation that committed last, and the stored status is
\* the one the review rule gives for the stored confidence and amount.
C29_LastCommitterWins ==
    BothCommitted =>
        /\ \A col \in CategorizedColumns : ColumnFrom(ccOrder[2], col)
        /\ ccRow.status =
               (IF NeedsReview(ccRow.confidence, ccRow.amount_cents)
                THEN "review" ELSE "finalized")

\* C29, amended: after both operations have committed, each of the stored
\* category, subcategory, confidence and status is the value that one of the
\* two operations computed for that column (not necessarily the same operation
\* for all four); when the operation that committed last assigned in all four
\* columns a value other than the one it had loaded, all four are its values.
C29_EachColumnFromOneOperation ==
    BothCommitted =>
        /\ \A col \in CategorizedColumns : \E p \in Requests : ColumnFrom(p, col)
        /\ ChangesAllColumns(ccOrder[2]) =>
               \A col \in CategorizedColumns : ColumnFrom(ccOrder[2], col)

\* both committed, and the stored four values are those of neither operation
C29_Witness ==
    /\ BothCommitted
    /\ \A p \in Requests : \E col \in CategorizedColumns : ~ColumnFrom(p, col)

\* both committed, the second after loading the first one's row, changing all four
C29_WitnessLast ==
    /\ BothCommitted
    /\ ChangesAllColumns(ccOrder[2])
    /\ ccSnap[ccOrder[2]] # ccSnap[ccOrder[1]]

=============================================================================
